---- MODULE Spec2Model ----
(***************************************************************************)
(* Model of project::SceneManager and of the lifecycle flag of the scenes  *)
(* it owns.                                                                *)
(*                                                                         *)
(* The repository holds two revisions of scene_manager.cpp:                *)
(*   "scene_manager.cpp"  src/src/scene_manager.cpp (the file the build    *)
(*                        lists): activateScene always cleans the current  *)
(*                        scene up and has no exception handler;           *)
(*   "part_005"           src/unnamed/part_005: activateScene cleans up    *)
(*                        only when the target differs and wraps both      *)
(*                        lifecycle calls in try / catch (...).            *)
(* The variable revision fixes which one a behaviour runs.                 *)
(*                                                                         *)
(* An exception that leaves a SceneManager call reaches main(), which has  *)
(* no handler (src/unnamed/part_004), so the program ends: terminated.     *)
(***************************************************************************)
EXTENDS Integers, Sequences, FiniteSets, TLC

\* Bound: number of scene objects the application creates.
MaxScenes == 3

\* Scene objects, named by creation order; NullScene is an empty unique_ptr.
SceneIds == 1..MaxScenes
NullScene == 0

Revisions == {"scene_manager.cpp", "part_005"}

VARIABLES
    revision,           \* which revision of scene_manager.cpp runs
    scenes,             \* std::vector<std::unique_ptr<SceneStrategy>> scenes
    currentSceneIndex,  \* size_t currentSceneIndex (0-based)
    isInitialized,      \* isInitialized flag of every scene object
    calls,              \* scene methods invoked by the last manager call, in order
    lastOp,             \* the last manager call: name, argument, index before it
    prevOp,             \* the manager call before lastOp
    run,                \* the current run of consecutive switchToNextScene calls
    terminated,         \* an exception left a manager call and ended the program
    everThrew           \* some lifecycle call has thrown so far

\* State of the concrete scenes and of the ECS registry of the physics scene
VARIABLES
    tree,               \* TreeScene: isInitialized, objects held by its Scene
    geo,                \* GeometricScene: isInitialized, hasCubeModel, objects, time
    bullet,             \* BulletPhysicsScene: isInitialized and the five world pointers
    registry,           \* entt::registry of the physics scene: entities in creation order
    world,              \* rigid bodies attached to the live btDiscreteDynamicsWorld
    effects,            \* library calls issued by the last scene or system call, in order
    lastCall,           \* the last scene or system call and its inputs
    entered             \* GeometricScene, BulletPhysicsScene: initialize() calls that ran (saturating)

managerVars == <<revision, scenes, currentSceneIndex, isInitialized, calls,
                 lastOp, prevOp, run, terminated, everThrew>>

sceneVars == <<tree, geo, bullet, registry, world, effects, lastCall, entered>>

\* State of PhysicsSystem's inputs, of the ImGuiManager and of the game loop
VARIABLES
    phys,               \* a dynamics world and a registry handed to PhysicsSystem::update
    imgui,              \* ImGuiManager: initialized, and the backend's last lifecycle call
    loop                \* runGameLoop: position, its locals, the calls of this iteration

appVars == <<phys, imgui, loop>>

vars == <<managerVars, sceneVars, appVars>>

Call(m, s, t) == [method |-> m, scene |-> s, threw |-> t]
\* A manager call: its name, its argument, the current index when it was made
\* and the index it handed to activateScene (NoTarget when it handed none)
NoTarget == -1
Op(name, arg, from, target) ==
    [op |-> name, arg |-> arg, from |-> from, target |-> target]
NoRun == [len |-> 0, start |-> 0, visited |-> {}]

\* size() of the scene vector, and the scene stored at a 0-based index
getSceneCount == Len(scenes)
At(index) == scenes[index + 1]

\* getCurrentScene() with the range check off by one
getCurrentSceneOffByOne ==
    IF currentSceneIndex + 1 >= Len(scenes) THEN NullScene ELSE At(currentSceneIndex)

\* getCurrentScene(): nullptr when the index is out of range
getCurrentScene ==
    IF currentSceneIndex >= Len(scenes) THEN NullScene ELSE At(currentSceneIndex)

getCurrentSceneIndex == currentSceneIndex

----------------------------------------------------------------------------
\* Scene lifecycle (the isInitialized discipline shared by the concrete scenes)

\* cleanup() does work, and so can fail, only on an initialized scene
CleanupThrows(init, s, fail) == init[s] /\ fail

\* cleanup(): the flag is cleared (BulletPhysicsScene clears it first)
CleanupFlag(init, s) == [init EXCEPT ![s] = FALSE]

\* initialize() returns at once on an initialized scene; otherwise it can fail
InitializeThrows(init, s, fail) == ~init[s] /\ fail

\* initialize(): the flag is set last, so a failing call leaves it clear
InitializeFlag(init, s, fail) ==
    IF init[s] THEN init
    ELSE IF fail THEN init
    ELSE [init EXCEPT ![s] = TRUE]

----------------------------------------------------------------------------
\* SceneManager

\* switchToNextScene's index without the wrap to 0
NextIndexNoWrap(cur, n) == IF cur + 1 >= n THEN cur ELSE cur + 1

\* nextIndex = (currentSceneIndex + 1) % scenes.size()
NextIndex(cur, n) == (cur + 1) % n

\* switchToPreviousScene's index without the wrap to the last scene
PrevIndexNoWrap(cur, n) == IF cur = 0 THEN 0 ELSE cur - 1

\* prevIndex = (currentSceneIndex == 0) ? scenes.size() - 1 : currentSceneIndex - 1
PrevIndex(cur, n) == IF cur = 0 THEN n - 1 ELSE cur - 1

\* The cleanup condition with the comparison to the target inverted
CleansUpInverted(rev, sc, cur, index) ==
    cur < Len(sc) /\ cur = index /\ sc[cur + 1] # NullScene

\* Does activateScene call cleanup() on the current scene?
CleansUp(rev, sc, cur, index) ==
    IF rev = "part_005"
    THEN cur < Len(sc) /\ cur # index /\ sc[cur + 1] # NullScene
    ELSE cur < Len(sc) /\ sc[cur + 1] # NullScene

\* Does an exception thrown by a lifecycle call leave activateScene?
Propagates(rev) == rev # "part_005"

\* activateScene(index) for index < scenes.size(): the resulting index, flags,
\* lifecycle calls and whether an exception escaped.
activateScene(rev, sc, cur, init, index, cFail, iFail) ==
    LET doClean  == CleansUp(rev, sc, cur, index)
        old      == sc[cur + 1]
        cThrew   == doClean /\ CleanupThrows(init, old, cFail)
        init1    == IF doClean THEN CleanupFlag(init, old) ELSE init
        calls1   == IF doClean THEN <<Call("cleanup", old, cThrew)>> ELSE <<>>
        new      == sc[index + 1]
        iThrew   == new # NullScene /\ InitializeThrows(init1, new, iFail)
    IN  IF index >= Len(sc)
        THEN [cur |-> cur, init |-> init, calls |-> <<>>, escaped |-> FALSE]
        ELSE IF cThrew /\ Propagates(rev)
        THEN [cur |-> cur, init |-> init1, calls |-> calls1, escaped |-> TRUE]
        ELSE IF new = NullScene
        THEN [cur |-> index, init |-> init1, calls |-> calls1, escaped |-> FALSE]
        ELSE [cur     |-> index,
              init    |-> InitializeFlag(init1, new, iFail),
              calls   |-> Append(calls1, Call("initialize", new, iThrew)),
              escaped |-> iThrew /\ Propagates(rev)]

----------------------------------------------------------------------------
\* Concrete scenes: data

\* A library call: its name, the entity it concerns (0 when none), the scale
\* it is given (<<>> when none) and the query or routine that issued it
Fx(call, entity, scale, by) ==
    [call |-> call, entity |-> entity, scale |-> scale, by |-> by]

NoEntity == 0

\* TreeScene(): isInitialized{false}, empty Scene
TreeNew == [isInitialized |-> FALSE, objects |-> 0, destroyed |-> FALSE]

\* GeometricScene(): no objects, hasCubeModel{false}, time{0}, isInitialized{false}
GeoNew == [isInitialized |-> FALSE, hasCubeModel |-> FALSE, objects |-> 0,
           time |-> 0, destroyed |-> FALSE]

\* The five world pointers of BulletPhysicsScene, in declaration order
WorldPointers == <<"dynamicsWorld", "dispatcher", "overlappingPairCache",
                   "constraintSolver", "collisionConfiguration">>

\* BulletPhysicsScene(): every pointer nullptr (FALSE), isInitialized{false}
BulletNew ==
    [isInitialized |-> FALSE, dynamicsWorld |-> FALSE, dispatcher |-> FALSE,
     overlappingPairCache |-> FALSE, constraintSolver |-> FALSE,
     collisionConfiguration |-> FALSE, destroyed |-> FALSE]

NoCall == [scene |-> "none", method |-> "none", in |-> <<>>]

\* Bound: initialize() calls counted per scene class before the count saturates
MaxEntries == 2

\* Neither of the scenes that rebuild their population has been initialized
NotEntered ==
    [s \in {"GeometricScene", "BulletPhysicsScene"} |-> 0]

\* The count after an initialize() call on scene class sc that found the scene
\* in state before and left it in state after
Entered(n, sc, before, after) ==
    IF ~before.isInitialized /\ after.isInitialized /\ n[sc] < MaxEntries
    THEN [n EXCEPT ![sc] = @ + 1]
    ELSE n
SceneCall(scene, method, in) == [scene |-> scene, method |-> method, in |-> in]

\* Transform.scale values: the unit scale, the ground's scale
UnitScale == <<1, 1, 1>>
GroundScale == <<40, 1, 40>>

\* scale.x > 0.0F && scale.y > 0.0F && scale.z > 0.0F
ScaleValid(sc) == sc[1] > 0 /\ sc[2] > 0 /\ sc[3] > 0

----------------------------------------------------------------------------
\* TreeScene

\* TreeScene::initialize() without the return after a failed IsModelValid
TreeScene_initializeIgnoresInvalid(t, fileExists, modelValid) ==
    IF t.isInitialized
    THEN [state |-> t, fx |-> <<>>]
    ELSE IF ~fileExists
    THEN [state |-> t, fx |-> <<Fx("FileExists", NoEntity, <<>>, "TreeScene")>>]
    ELSE [state |-> [t EXCEPT !.objects = @ + 1, !.isInitialized = TRUE],
          fx |-> <<Fx("FileExists", NoEntity, <<>>, "TreeScene"),
                   Fx("LoadModel", NoEntity, <<>>, "TreeScene"),
                   Fx("IsModelValid", NoEntity, <<>>, "TreeScene"),
                   Fx("Scene::addObject", NoEntity, <<>>, "TreeScene")>>]

\* TreeScene::initialize(): fileExists and modelValid are the answers of
\* FileExists(modelPath) and IsModelValid(model)
TreeScene_initialize(t, fileExists, modelValid) ==
    IF t.isInitialized
    THEN [state |-> t, fx |-> <<>>]
    ELSE IF ~fileExists
    THEN [state |-> t, fx |-> <<Fx("FileExists", NoEntity, <<>>, "TreeScene")>>]
    ELSE IF ~modelValid
    THEN [state |-> t,
          fx |-> <<Fx("FileExists", NoEntity, <<>>, "TreeScene"),
                   Fx("LoadModel", NoEntity, <<>>, "TreeScene"),
                   Fx("IsModelValid", NoEntity, <<>>, "TreeScene")>>]
    ELSE [state |-> [t EXCEPT !.objects = @ + 1, !.isInitialized = TRUE],
          fx |-> <<Fx("FileExists", NoEntity, <<>>, "TreeScene"),
                   Fx("LoadModel", NoEntity, <<>>, "TreeScene"),
                   Fx("IsModelValid", NoEntity, <<>>, "TreeScene"),
                   Fx("Scene::addObject", NoEntity, <<>>, "TreeScene")>>]

\* TreeScene::cleanup() without the final isInitialized = false
TreeScene_cleanupKeepsFlag(t) ==
    IF t.isInitialized
    THEN [state |-> [t EXCEPT !.objects = 0],
          fx |-> <<Fx("Scene::clear", NoEntity, <<>>, "TreeScene")>>]
    ELSE [state |-> t, fx |-> <<>>]

\* TreeScene::cleanup()
TreeScene_cleanup(t) ==
    IF t.isInitialized
    THEN [state |-> [t EXCEPT !.objects = 0, !.isInitialized = FALSE],
          fx |-> <<Fx("Scene::clear", NoEntity, <<>>, "TreeScene")>>]
    ELSE [state |-> t, fx |-> <<>>]

\* TreeScene::draw()
TreeScene_draw(t) ==
    IF t.isInitialized
    THEN <<Fx("Scene::draw", NoEntity, <<>>, "TreeScene")>>
    ELSE <<>>

----------------------------------------------------------------------------
\* GeometricScene

kObjectCount == 8

\* The concatenation of a sequence of sequences
RECURSIVE Flatten(_)
Flatten(ss) == IF ss = <<>> THEN <<>> ELSE Head(ss) \o Flatten(Tail(ss))

\* createGeometricObjects(): clear, kObjectCount objects on a circle, one centre
createGeometricObjects(objects) == 0 + kObjectCount + 1

\* GeometricScene::initialize() without its isInitialized guard
GeometricScene_initializeUnguarded(g, modelValid) ==
    [state |-> [g EXCEPT !.hasCubeModel = modelValid,
                         !.objects = createGeometricObjects(@),
                         !.time = 0,
                         !.isInitialized = TRUE],
     fx |-> <<Fx("GenMeshCube", NoEntity, <<>>, "GeometricScene"),
              Fx("LoadModelFromMesh", NoEntity, <<>>, "GeometricScene"),
              Fx("IsModelValid", NoEntity, <<>>, "GeometricScene")>>]

\* GeometricScene::initialize(): modelValid is the answer of IsModelValid(cubeModel)
GeometricScene_initialize(g, modelValid) ==
    IF g.isInitialized
    THEN [state |-> g, fx |-> <<>>]
    ELSE [state |-> [g EXCEPT !.hasCubeModel = modelValid,
                              !.objects = createGeometricObjects(@),
                              !.time = 0,
                              !.isInitialized = TRUE],
          fx |-> <<Fx("GenMeshCube", NoEntity, <<>>, "GeometricScene"),
                   Fx("LoadModelFromMesh", NoEntity, <<>>, "GeometricScene"),
                   Fx("IsModelValid", NoEntity, <<>>, "GeometricScene")>>]

\* GeometricScene::cleanup()
GeometricScene_cleanup(g) ==
    IF g.isInitialized
    THEN [state |-> [g EXCEPT !.hasCubeModel = FALSE, !.objects = 0,
                              !.isInitialized = FALSE],
          fx |-> IF g.hasCubeModel
                 THEN <<Fx("UnloadModel", NoEntity, <<>>, "GeometricScene")>>
                 ELSE <<>>]
    ELSE [state |-> g, fx |-> <<>>]

\* GeometricScene::update() without its isInitialized guard
GeometricScene_updateUnguarded(g, frameTime) ==
    [state |-> [g EXCEPT !.time = @ + frameTime],
     fx |-> <<Fx("GetFrameTime", NoEntity, <<>>, "GeometricScene")>>]

\* GeometricScene::update(): frameTime is the answer of GetFrameTime()
GeometricScene_update(g, frameTime) ==
    IF ~g.isInitialized
    THEN [state |-> g, fx |-> <<>>]
    ELSE [state |-> [g EXCEPT !.time = @ + frameTime],
          fx |-> <<Fx("GetFrameTime", NoEntity, <<>>, "GeometricScene")>>]

\* GeometricScene::draw(): one model and one wire cube per object
GeometricScene_draw(g) ==
    IF ~g.isInitialized \/ ~g.hasCubeModel
    THEN <<>>
    ELSE Flatten([i \in 1..g.objects |->
                    <<Fx("DrawModelEx", i, <<>>, "GeometricScene"),
                      Fx("DrawCubeWiresV", i, <<>>, "GeometricScene")>>])

----------------------------------------------------------------------------
\* ECS entities of the physics scene.  An entity is named by its position in
\* the registry; its rigid body carries the same number (0: nullptr).

\* Vector3{0, 0, 0}.  Lengths are counted in half units, so that -0.5 is -1.
ZeroVector == <<0, 0, 0>>

\* A raylib Quaternion: the aggregate Quaternion{a, b, c, d} fills x, y, z, w
Quaternion(a, b, c, d) == [x |-> a, y |-> b, z |-> c, w |-> d]

\* Quaternion{0.0F, 0.0F, 0.0F, 1.0F}
IdentityQuaternion == Quaternion(0, 0, 0, 1)

\* Transform + PhysicsBody + optional Renderable + optional Ground / Name tag
Entity(body, mass, renderable, hasModel, ground, name, scale) ==
    [body |-> body, mass |-> mass, isStatic |-> (mass = 0),
     renderable |-> renderable, hasModel |-> hasModel,
     ground |-> ground, name |-> name, scale |-> scale,
     position |-> ZeroVector, rotation |-> IdentityQuaternion]

\* The entities of a registry that a view visits, in order: has[i] tells
\* whether entity i carries the view's components
View(has) == SelectSeq([i \in 1..Len(has) |-> i], LAMBDA i : has[i])

\* createPhysicsEntity() without the addRigidBody call
createPhysicsEntityDetached(reg, w, worldSet, position, mass, hasModel, modelValid, isGround) ==
    LET e == Len(reg) + 1
    IN  [registry |-> Append(reg, [Entity(e, mass, hasModel,
                                          hasModel /\ modelValid,
                                          isGround, FALSE, UnitScale)
                                     EXCEPT !.position = position,
                                            !.rotation = IdentityQuaternion]),
         world |-> w,
         entity |-> e,
         fx |-> <<Fx("new btDefaultMotionState", e, <<>>, "createPhysicsEntity"),
                  Fx("new btRigidBody", e, <<>>, "createPhysicsEntity")>>]

\* createPhysicsEntity(position, shape, mass, hasModel, model, color, isGround):
\* modelValid is the answer of IsModelValid(model); worldSet tells whether
\* dynamicsWorld != nullptr
createPhysicsEntity(reg, w, worldSet, position, mass, hasModel, modelValid, isGround) ==
    LET e == Len(reg) + 1
    IN  [registry |-> Append(reg, [Entity(e, mass, hasModel,
                                          hasModel /\ modelValid,
                                          isGround, FALSE, UnitScale)
                                     EXCEPT !.position = position,
                                            !.rotation = IdentityQuaternion]),
         world |-> IF worldSet THEN w \cup {e} ELSE w,
         entity |-> e,
         fx |-> <<Fx("new btDefaultMotionState", e, <<>>, "createPhysicsEntity"),
                  Fx("new btRigidBody", e, <<>>, "createPhysicsEntity")>>
                \o (IF worldSet
                    THEN <<Fx("addRigidBody", e, <<>>, "createPhysicsEntity")>>
                    ELSE <<>>)]

\* setupPhysicsWorld(): the five world objects are created
setupPhysicsWorld(b) ==
    [b EXCEPT !.collisionConfiguration = TRUE, !.dispatcher = TRUE,
              !.overlappingPairCache = TRUE, !.constraintSolver = TRUE,
              !.dynamicsWorld = TRUE]

\* groundPosition{0.0F, kGroundY, 0.0F}, kGroundY = -0.5F
groundPosition == <<0, -1, 0>>

\* createGroundPlane(): a static Ground entity scaled to groundScale
createGroundPlane(reg, w, worldSet, modelValid) ==
    LET r == createPhysicsEntity(reg, w, worldSet, groundPosition, 0,
                                 modelValid, modelValid, TRUE)
    IN  [r EXCEPT !.registry[r.entity].scale = GroundScale]

kBoxCount == 10
kBoxMass == 1

\* kGridSize = static_cast<int>(std::sqrt(kBoxCount))
kGridSize == CHOOSE k \in 0..kBoxCount : k * k <= kBoxCount /\ (k + 1) * (k + 1) > kBoxCount

\* boxPosition{posX, kStartHeight, posZ}, posX = (i - kGridSize / 2.0F) * kSpacing
\* with kSpacing = 2.0F and kStartHeight = 5.0F
boxPosition(i, j) == <<2 * (2 * i - kGridSize), 10, 2 * (2 * j - kGridSize)>>

\* createFallingBoxes(): the loops over i and j, from the pair (i, j) on, with
\* boxIndex boxes created so far
RECURSIVE FallingBoxesFrom(_, _, _, _)
FallingBoxesFrom(r, worldSet, i, j) ==
    IF ~(i < kGridSize /\ Len(r.boxes) < kBoxCount) THEN r
    ELSE IF ~(j < kGridSize /\ Len(r.boxes) < kBoxCount)
    THEN FallingBoxesFrom(r, worldSet, i + 1, 0)
    ELSE LET c == createPhysicsEntity(r.registry, r.world, worldSet,
                                      boxPosition(i, j), kBoxMass,
                                      TRUE, TRUE, FALSE)
         IN  FallingBoxesFrom([registry |-> c.registry, world |-> c.world,
                               boxes |-> Append(r.boxes, c.entity),
                               fx |-> r.fx \o c.fx],
                              worldSet, i, j + 1)

createFallingBoxes(reg, w, worldSet) ==
    FallingBoxesFrom([registry |-> reg, world |-> w, boxes |-> <<>>, fx |-> <<>>],
                     worldSet, 0, 0)

\* characterPosition{0.0F, characterY, 0.0F}, for a model whose bounding box
\* starts at its origin (characterY = 0)
characterPosition == <<0, 0, 0>>

\* createCharacter(): fileExists and modelValid are the answers of
\* FileExists(kCharacterPath) and IsModelValid(characterModel)
createCharacter(reg, w, worldSet, fileExists, modelValid) ==
    IF ~fileExists
    THEN [registry |-> reg, world |-> w,
          fx |-> <<Fx("FileExists", NoEntity, <<>>, "createCharacter")>>]
    ELSE IF ~modelValid
    THEN [registry |-> reg, world |-> w,
          fx |-> <<Fx("FileExists", NoEntity, <<>>, "createCharacter"),
                   Fx("LoadModel", NoEntity, <<>>, "createCharacter")>>]
    ELSE LET r == createPhysicsEntity(reg, w, worldSet, characterPosition, 0,
                                      TRUE, TRUE, FALSE)
         IN  [registry |-> [r.registry EXCEPT ![r.entity].name = TRUE,
                                              ![r.entity].scale = UnitScale],
              world |-> r.world,
              fx |-> <<Fx("FileExists", NoEntity, <<>>, "createCharacter"),
                       Fx("LoadModel", NoEntity, <<>>, "createCharacter")>> \o r.fx]

\* BulletPhysicsScene::initialize()
BulletPhysicsScene_initialize(b, reg, w, groundValid, charExists, charValid) ==
    IF b.isInitialized
    THEN [state |-> b, registry |-> reg, world |-> w, fx |-> <<>>]
    ELSE LET b1 == setupPhysicsWorld(b)
             g  == createGroundPlane(reg, w, b1.dynamicsWorld, groundValid)
             c  == createCharacter(g.registry, g.world, b1.dynamicsWorld,
                                   charExists, charValid)
         IN  [state |-> [b1 EXCEPT !.isInitialized = TRUE],
              registry |-> c.registry,
              world |-> c.world,
              fx |-> <<Fx("setupPhysicsWorld", NoEntity, <<>>, "initialize")>>
                     \o g.fx \o c.fx]

\* cleanupPhysicsWorld() that deletes the dynamics world and leaves its
\* pointer as it was
cleanupPhysicsWorldKeepsWorld(b) ==
    [state |-> [b EXCEPT !.constraintSolver = FALSE,
                         !.overlappingPairCache = FALSE, !.dispatcher = FALSE,
                         !.collisionConfiguration = FALSE],
     fx |-> <<Fx("delete dynamicsWorld", NoEntity, <<>>, "cleanupPhysicsWorld")>>]

\* cleanupPhysicsWorld(): every non-null world object is deleted and nulled
cleanupPhysicsWorld(b) ==
    [state |-> [b EXCEPT !.dynamicsWorld = FALSE, !.constraintSolver = FALSE,
                         !.overlappingPairCache = FALSE, !.dispatcher = FALSE,
                         !.collisionConfiguration = FALSE],
     fx |-> Flatten([k \in 1..5 |->
               LET p == <<"dynamicsWorld", "constraintSolver",
                          "overlappingPairCache", "dispatcher",
                          "collisionConfiguration">>[k]
               IN  IF b[p] THEN <<Fx("delete " \o p, NoEntity, <<>>,
                                     "cleanupPhysicsWorld")>>
                   ELSE <<>>])]

\* The removeRigidBody loop of cleanup(): the bodies it detaches, in order
RemovedBodies(b, reg) ==
    View([n \in 1..Len(reg) |-> reg[n].body # 0 /\ b.dynamicsWorld])

\* BulletPhysicsScene::cleanup() with registry.clear() moved before the
\* removeRigidBody loop, which then finds no entity
BulletPhysicsScene_cleanupClearsFirst(b, reg, w) ==
    IF ~b.isInitialized
    THEN [state |-> b, registry |-> reg, world |-> w, fx |-> <<>>]
    ELSE LET c == cleanupPhysicsWorld([b EXCEPT !.isInitialized = FALSE])
         IN  [state |-> c.state,
              registry |-> <<>>,
              world |-> IF b.dynamicsWorld THEN {} ELSE w,
              fx |-> <<Fx("registry.clear", NoEntity, <<>>, "cleanup")>> \o c.fx]

\* BulletPhysicsScene::cleanup()
BulletPhysicsScene_cleanup(b, reg, w) ==
    IF ~b.isInitialized
    THEN [state |-> b, registry |-> reg, world |-> w, fx |-> <<>>]
    ELSE LET removed == RemovedBodies(b, reg)
             c == cleanupPhysicsWorld([b EXCEPT !.isInitialized = FALSE])
         IN  [state |-> c.state,
              registry |-> <<>>,
              \* bodies left after the removals; none once the world is deleted
              world |-> LET left == w \ {reg[removed[k]].body : k \in 1..Len(removed)}
                        IN  IF b.dynamicsWorld THEN {} ELSE left,
              fx |-> [k \in 1..Len(removed) |->
                        Fx("removeRigidBody", reg[removed[k]].body, <<>>, "cleanup")]
                     \o <<Fx("registry.clear", NoEntity, <<>>, "cleanup")>>
                     \o c.fx]

----------------------------------------------------------------------------
\* PhysicsSystem and RenderSystem

\* PhysicsSystem::update(registry, dynamicsWorld, deltaTime)
PhysicsSystem_update(reg, worldSet) ==
    IF ~worldSet THEN <<>>
    ELSE <<Fx("stepSimulation", NoEntity, <<>>, "PhysicsSystem::update")>>
         \o [k \in 1..Len(View([n \in 1..Len(reg) |-> reg[n].body # 0])) |->
               Fx("getWorldTransform", View([n \in 1..Len(reg) |-> reg[n].body # 0])[k], <<>>,
                  "PhysicsSystem::update")]

\* RenderSystem::draw(registry): view<Transform, Renderable>
RenderSystem_draw(reg) ==
    LET ids == View([n \in 1..Len(reg) |-> reg[n].renderable])
        One(i) == IF ~reg[i].hasModel THEN <<>>
                  ELSE IF ScaleValid(reg[i].scale)
                  THEN <<Fx("DrawModelEx", i, reg[i].scale, "RenderSystem::draw")>>
                  ELSE <<Fx("DrawModel", i, UnitScale, "RenderSystem::draw")>>
    IN  Flatten([k \in 1..Len(ids) |-> One(ids[k])])

\* RenderSystem::drawGround(registry) without the hasModel test
RenderSystem_drawGroundUnchecked(reg) ==
    LET ids == View([n \in 1..Len(reg) |-> reg[n].renderable /\ reg[n].ground])
    IN  [k \in 1..Len(ids) |->
           Fx("DrawModelEx", ids[k], reg[ids[k]].scale, "RenderSystem::drawGround")]

\* RenderSystem::drawGround(registry): view<Transform, Renderable, Ground>
RenderSystem_drawGround(reg) ==
    LET ids == View([n \in 1..Len(reg) |-> reg[n].renderable /\ reg[n].ground])
        One(i) == IF ~reg[i].hasModel THEN <<>>
                  ELSE <<Fx("DrawModelEx", i, reg[i].scale, "RenderSystem::drawGround")>>
    IN  Flatten([k \in 1..Len(ids) |-> One(ids[k])])

\* The character loop of BulletPhysicsScene::draw(): view<Transform, Renderable, Name>
DrawCharacters(reg) ==
    LET ids == View([n \in 1..Len(reg) |-> reg[n].renderable /\ reg[n].name])
        One(i) == IF reg[i].hasModel
                  THEN <<Fx("DrawBoundingBox", i, <<>>, "BulletPhysicsScene::draw"),
                         Fx("DrawModelEx", i,
                            IF ScaleValid(reg[i].scale) THEN reg[i].scale
                            ELSE UnitScale,
                            "BulletPhysicsScene::draw")>>
                  ELSE <<Fx("DrawSphere", i, <<>>, "BulletPhysicsScene::draw")>>
    IN  Flatten([k \in 1..Len(ids) |-> One(ids[k])])
        \o (IF ids = <<>>
            THEN <<Fx("DrawCube", NoEntity, <<>>, "BulletPhysicsScene::draw"),
                   Fx("DrawCubeWires", NoEntity, <<>>, "BulletPhysicsScene::draw")>>
            ELSE <<>>)

\* The wireframe loop: view<Transform, PhysicsBody>(exclude<Ground>), Name skipped
DrawWireframes(reg) ==
    LET ids == View([n \in 1..Len(reg) |-> ~reg[n].ground /\ ~reg[n].name])
    IN  [k \in 1..Len(ids) |->
           Fx("DrawCubeWiresV", ids[k], <<>>, "BulletPhysicsScene::draw")]

\* BulletPhysicsScene::update()
BulletPhysicsScene_update(b, reg) ==
    IF ~b.isInitialized \/ ~b.dynamicsWorld
    THEN <<>>
    ELSE <<Fx("GetFrameTime", NoEntity, <<>>, "BulletPhysicsScene::update")>>
         \o PhysicsSystem_update(reg, b.dynamicsWorld)

\* BulletPhysicsScene::draw()
BulletPhysicsScene_draw(b, reg) ==
    IF ~b.isInitialized
    THEN <<>>
    ELSE RenderSystem_drawGround(reg) \o RenderSystem_draw(reg)
         \o DrawCharacters(reg) \o DrawWireframes(reg)

----------------------------------------------------------------------------
\* PhysicsSystem, ImGuiManager, runGameLoop: data

\* No world and no registry handed to PhysicsSystem::update
PhysNone == [worldSet |-> FALSE, ents |-> <<>>, trace |-> <<>>]

\* ImGuiManager(): initialized{false}; no backend call made yet, no ImGui
\* context whose io could want the mouse or the keyboard
ImGuiNew == [initialized |-> FALSE, destroyed |-> FALSE, backend |-> "none",
             inits |-> 0, shutdowns |-> 0,
             wantMouse |-> FALSE, wantKeyboard |-> FALSE, returned |-> FALSE]

\* No game loop running: no main has been entered
LoopNone == [variant |-> "none", pc |-> "none", toRegister |-> 0,
             cameraTrackingEnabled |-> FALSE, cursorEnabled |-> FALSE,
             imguiWantsMouse |-> FALSE, imguiWantsKeyboard |-> FALSE,
             showControlPanel |-> TRUE,
             call |-> "none", lastCursor |-> "none",
             cameraUpdated |-> FALSE, frame |-> <<>>]

\* The statement that follows pc in runGameLoop, with the scene switches of
\* an iteration moved between its update and its draw
NextPcSwitchLate(variant, pc) ==
    IF variant = "tab"
    THEN CASE pc = "enter" -> "top"
           [] pc = "top" -> "camera"
           [] pc = "camera" -> "update"
           [] pc = "update" -> "input"
           [] pc = "input" -> "draw"
           [] pc = "draw" -> "top"
           [] OTHER -> pc
    ELSE CASE pc = "enter" -> "top"
           [] pc = "top" -> "beginFrame"
           [] pc = "beginFrame" -> "wants"
           [] pc = "wants" -> "f4"
           [] pc = "f4" -> "click"
           [] pc = "click" -> "cursor"
           [] pc = "cursor" -> "camera"
           [] pc = "camera" -> "update"
           [] pc = "update" -> "panelPrev"
           [] pc = "panelPrev" -> "panelNext"
           [] pc = "panelNext" -> "draw"
           [] pc = "draw" -> "endFrame"
           [] pc = "endFrame" -> "top"
           [] OTHER -> pc

\* The statement that follows pc in runGameLoop (TAB variant: key, camera,
\* update, draw; ImGui variant: beginFrame, wants, F4, click, cursor, camera,
\* update, draw, control panel buttons, endFrame)
NextPc(variant, pc) ==
    IF variant = "tab"
    THEN CASE pc = "enter" -> "top"
           [] pc = "top" -> "input"
           [] pc = "input" -> "camera"
           [] pc = "camera" -> "update"
           [] pc = "update" -> "draw"
           [] pc = "draw" -> "top"
           [] OTHER -> pc
    ELSE CASE pc = "enter" -> "top"
           [] pc = "top" -> "beginFrame"
           [] pc = "beginFrame" -> "wants"
           [] pc = "wants" -> "f4"
           [] pc = "f4" -> "click"
           [] pc = "click" -> "cursor"
           [] pc = "cursor" -> "camera"
           [] pc = "camera" -> "update"
           [] pc = "update" -> "draw"
           [] pc = "draw" -> "panelPrev"
           [] pc = "panelPrev" -> "panelNext"
           [] pc = "panelNext" -> "endFrame"
           [] pc = "endFrame" -> "top"
           [] OTHER -> pc

\* A statement of the loop that makes no cursor call has run
Advance(l) == [l EXCEPT !.pc = NextPc(l.variant, l.pc), !.call = "none"]

\* The loop after a manager call made by main or by runGameLoop: the call and
\* the scene that is current after it join the calls of the iteration.  A
\* manager driven without a main is not in a loop.
AfterCall(l, op, scene) ==
    IF l.variant = "none" THEN l
    ELSE IF l.pc = "register"
    THEN [l EXCEPT !.pc = IF l.toRegister = 1 THEN "enter" ELSE "register",
                   !.toRegister = @ - 1]
    ELSE [Advance(l) EXCEPT !.frame = Append(@, [op |-> op.op, scene |-> scene])]

Init ==
    /\ revision \in Revisions
    /\ scenes = <<>>
    /\ currentSceneIndex = 0
    /\ isInitialized = [s \in SceneIds |-> FALSE]
    /\ calls = <<>>
    /\ lastOp = Op("none", 0, 0, NoTarget)
    /\ prevOp = Op("none", 0, 0, NoTarget)
    /\ run = NoRun
    /\ terminated = FALSE
    /\ everThrew = FALSE
    /\ tree = TreeNew
    /\ geo = GeoNew
    /\ bullet = BulletNew
    /\ registry = <<>>
    /\ world = {}
    /\ effects = <<>>
    /\ lastCall = NoCall
    /\ entered = NotEntered
    /\ phys = PhysNone
    /\ imgui = ImGuiNew
    /\ loop = LoopNone

\* The effect of a call to activateScene on the manager and scene state
Apply(r) ==
    /\ currentSceneIndex' = r.cur
    /\ isInitialized' = r.init
    /\ calls' = r.calls
    /\ terminated' = r.escaped

\* A manager call records whether a lifecycle call threw; the scenes' inner
\* state is abstracted by isInitialized in the manager's specification
ManagerFrame ==
    /\ everThrew' = (everThrew \/ \E i \in 1..Len(calls') : calls'[i].threw)
    /\ UNCHANGED sceneVars
    /\ UNCHANGED <<phys, imgui>>
    /\ loop' = AfterCall(loop, lastOp', getCurrentScene')

\* registerScene(nullptr) without the null check: the empty pointer is stored
registerSceneNullStored ==
    /\ ~terminated
    /\ Len(scenes) < MaxScenes
    /\ scenes' = Append(scenes, NullScene)
    /\ lastOp' = Op("registerScene", NullScene, currentSceneIndex, NoTarget)
    /\ prevOp' = lastOp
    /\ calls' = <<>>
    /\ run' = NoRun
    /\ UNCHANGED <<revision, currentSceneIndex, isInitialized, terminated>>
    /\ ManagerFrame

\* registerScene(nullptr)
registerSceneNull ==
    /\ ~terminated
    /\ lastOp' = Op("registerScene", NullScene, currentSceneIndex, NoTarget)
    /\ prevOp' = lastOp
    /\ calls' = <<>>
    /\ run' = NoRun
    /\ UNCHANGED <<revision, scenes, currentSceneIndex, isInitialized, terminated>>
    /\ ManagerFrame

\* registerScene(scene) that puts the new scene in front of the others
registerScenePrepend(s, cFail, iFail) ==
    /\ ~terminated
    /\ s = Len(scenes) + 1
    /\ scenes' = <<s>> \o scenes
    /\ IF Len(scenes') = 1
       THEN Apply(activateScene(revision, scenes', currentSceneIndex,
                                isInitialized, 0, cFail, iFail))
       ELSE /\ calls' = <<>>
            /\ UNCHANGED <<currentSceneIndex, isInitialized, terminated>>
    /\ lastOp' = Op("registerScene", s, currentSceneIndex,
                     IF Len(scenes') = 1 THEN 0 ELSE NoTarget)
    /\ prevOp' = lastOp
    /\ run' = NoRun
    /\ UNCHANGED revision
    /\ ManagerFrame

\* registerScene(scene) that activates every scene it is given
registerSceneActivating(s, cFail, iFail) ==
    /\ ~terminated
    /\ s = Len(scenes) + 1
    /\ scenes' = Append(scenes, s)
    /\ Apply(activateScene(revision, scenes', currentSceneIndex,
                           isInitialized, Len(scenes), cFail, iFail))
    /\ lastOp' = Op("registerScene", s, currentSceneIndex, Len(scenes))
    /\ prevOp' = lastOp
    /\ run' = NoRun
    /\ UNCHANGED revision
    /\ ManagerFrame

\* registerScene(scene) with a scene object not yet owned by the manager
registerScene(s, cFail, iFail) ==
    /\ ~terminated
    /\ s = Len(scenes) + 1
    /\ scenes' = Append(scenes, s)
    /\ IF Len(scenes') = 1
       THEN Apply(activateScene(revision, scenes', currentSceneIndex,
                                isInitialized, 0, cFail, iFail))
       ELSE /\ calls' = <<>>
            /\ UNCHANGED <<currentSceneIndex, isInitialized, terminated>>
    /\ lastOp' = Op("registerScene", s, currentSceneIndex,
                     IF Len(scenes') = 1 THEN 0 ELSE NoTarget)
    /\ prevOp' = lastOp
    /\ run' = NoRun
    /\ UNCHANGED revision
    /\ ManagerFrame

\* switchToScene(index) that clamps an out-of-range index to the last scene
switchToSceneClamped(index, cFail, iFail) ==
    /\ ~terminated
    /\ IF Len(scenes) = 0
       THEN /\ calls' = <<>>
            /\ UNCHANGED <<currentSceneIndex, isInitialized, terminated>>
       ELSE Apply(activateScene(revision, scenes, currentSceneIndex, isInitialized,
                                IF index >= Len(scenes) THEN Len(scenes) - 1
                                ELSE index, cFail, iFail))
    /\ lastOp' = Op("switchToScene", index, currentSceneIndex,
                     IF index >= Len(scenes) THEN NoTarget ELSE index)
    /\ prevOp' = lastOp
    /\ run' = NoRun
    /\ UNCHANGED <<revision, scenes>>
    /\ ManagerFrame

switchToScene(index, cFail, iFail) ==
    /\ ~terminated
    /\ IF index >= Len(scenes)
       THEN /\ calls' = <<>>
            /\ UNCHANGED <<currentSceneIndex, isInitialized, terminated>>
       ELSE Apply(activateScene(revision, scenes, currentSceneIndex,
                                isInitialized, index, cFail, iFail))
    /\ lastOp' = Op("switchToScene", index, currentSceneIndex,
                     IF index >= Len(scenes) THEN NoTarget ELSE index)
    /\ prevOp' = lastOp
    /\ run' = NoRun
    /\ UNCHANGED <<revision, scenes>>
    /\ ManagerFrame

\* The run of consecutive completed switchToNextScene calls after one more
Extend(r, from, to, n) ==
    IF r.len = 0 \/ r.len >= n
    THEN [len |-> 1, start |-> from, visited |-> {to}]
    ELSE [len |-> r.len + 1, start |-> r.start, visited |-> r.visited \cup {to}]

switchToNextScene(cFail, iFail) ==
    /\ ~terminated
    /\ IF Len(scenes) = 0
       THEN /\ calls' = <<>>
            /\ lastOp' = Op("switchToNextScene", 0, currentSceneIndex, NoTarget)
            /\ run' = NoRun
            /\ UNCHANGED <<currentSceneIndex, isInitialized, terminated>>
       ELSE LET nextIndex == NextIndex(currentSceneIndex, Len(scenes))
            IN  /\ Apply(activateScene(revision, scenes, currentSceneIndex,
                                       isInitialized, nextIndex, cFail, iFail))
                /\ lastOp' = Op("switchToNextScene", 0, currentSceneIndex, nextIndex)
                /\ run' = IF terminated' THEN NoRun
                          ELSE Extend(run, currentSceneIndex,
                                      currentSceneIndex', Len(scenes))
    /\ prevOp' = lastOp
    /\ UNCHANGED <<revision, scenes>>
    /\ ManagerFrame

switchToPreviousScene(cFail, iFail) ==
    /\ ~terminated
    /\ IF Len(scenes) = 0
       THEN /\ calls' = <<>>
            /\ lastOp' = Op("switchToPreviousScene", 0, currentSceneIndex, NoTarget)
            /\ UNCHANGED <<currentSceneIndex, isInitialized, terminated>>
       ELSE LET prevIndex == PrevIndex(currentSceneIndex, Len(scenes))
            IN  /\ Apply(activateScene(revision, scenes, currentSceneIndex,
                                       isInitialized, prevIndex, cFail, iFail))
                /\ lastOp' = Op("switchToPreviousScene", 0, currentSceneIndex, prevIndex)
    /\ prevOp' = lastOp
    /\ run' = NoRun
    /\ UNCHANGED <<revision, scenes>>
    /\ ManagerFrame

\* update() / draw() that use the current scene without the null check
DelegateUnchecked(name) ==
    /\ ~terminated
    /\ calls' = <<Call(name, getCurrentScene, FALSE)>>
    /\ lastOp' = Op(name, 0, currentSceneIndex, NoTarget)
    /\ prevOp' = lastOp
    /\ UNCHANGED <<revision, scenes, currentSceneIndex, isInitialized, run,
                   terminated>>
    /\ ManagerFrame

\* update() / draw(): delegate to the current scene, if any
Delegate(name) ==
    /\ ~terminated
    /\ calls' = IF getCurrentScene # NullScene
                THEN <<Call(name, getCurrentScene, FALSE)>>
                ELSE <<>>
    /\ lastOp' = Op(name, 0, currentSceneIndex, NoTarget)
    /\ prevOp' = lastOp
    /\ UNCHANGED <<revision, scenes, currentSceneIndex, isInitialized, run,
                   terminated>>
    /\ ManagerFrame

update == Delegate("update")

draw == Delegate("draw")

Next ==
    \/ registerSceneNull
    \/ \E s \in SceneIds, cFail \in BOOLEAN, iFail \in BOOLEAN :
          registerScene(s, cFail, iFail)
    \/ \E index \in 0..(MaxScenes + 1), cFail \in BOOLEAN, iFail \in BOOLEAN :
          switchToScene(index, cFail, iFail)
    \/ \E cFail \in BOOLEAN, iFail \in BOOLEAN : switchToNextScene(cFail, iFail)
    \/ \E cFail \in BOOLEAN, iFail \in BOOLEAN : switchToPreviousScene(cFail, iFail)
    \/ update
    \/ draw

Spec == Init /\ [][Next]_vars

----------------------------------------------------------------------------
\* The concrete scenes driven directly through the SceneStrategy interface

\* Bound: frame time accumulated by GeometricScene::update
MaxTime == 2

SceneObjects == <<tree, geo, bullet, registry, world>>

TreeInitialize(fileExists, modelValid) ==
    /\ ~tree.destroyed
    /\ LET r == TreeScene_initialize(tree, fileExists, modelValid)
       IN  tree' = r.state /\ effects' = r.fx
    /\ lastCall' = SceneCall("TreeScene", "initialize", <<fileExists, modelValid>>)
    /\ UNCHANGED <<geo, bullet, registry, world, managerVars, appVars, entered>>

TreeCleanup ==
    /\ ~tree.destroyed
    /\ LET r == TreeScene_cleanup(tree)
       IN  tree' = r.state /\ effects' = r.fx
    /\ lastCall' = SceneCall("TreeScene", "cleanup", <<>>)
    /\ UNCHANGED <<geo, bullet, registry, world, managerVars, appVars, entered>>

\* ~TreeScene(): cleanup()
TreeDestructor ==
    /\ ~tree.destroyed
    /\ LET r == TreeScene_cleanup(tree)
       IN  tree' = [r.state EXCEPT !.destroyed = TRUE] /\ effects' = r.fx
    /\ lastCall' = SceneCall("TreeScene", "destructor", <<>>)
    /\ UNCHANGED <<geo, bullet, registry, world, managerVars, appVars, entered>>

\* TreeScene does not override update(): SceneStrategy::update() {}
TreeUpdate ==
    /\ ~tree.destroyed
    /\ effects' = <<>>
    /\ lastCall' = SceneCall("TreeScene", "update", <<>>)
    /\ UNCHANGED <<tree, geo, bullet, registry, world, managerVars, appVars, entered>>

TreeDraw ==
    /\ ~tree.destroyed
    /\ effects' = TreeScene_draw(tree)
    /\ lastCall' = SceneCall("TreeScene", "draw", <<>>)
    /\ UNCHANGED <<tree, geo, bullet, registry, world, managerVars, appVars, entered>>

GeoInitialize(modelValid) ==
    /\ ~geo.destroyed
    /\ LET r == GeometricScene_initialize(geo, modelValid)
       IN  geo' = r.state /\ effects' = r.fx
    /\ lastCall' = SceneCall("GeometricScene", "initialize", <<modelValid>>)
    /\ entered' = Entered(entered, "GeometricScene", geo, geo')
    /\ UNCHANGED <<tree, bullet, registry, world, managerVars, appVars>>

GeoCleanup ==
    /\ ~geo.destroyed
    /\ LET r == GeometricScene_cleanup(geo)
       IN  geo' = r.state /\ effects' = r.fx
    /\ lastCall' = SceneCall("GeometricScene", "cleanup", <<>>)
    /\ UNCHANGED <<tree, bullet, registry, world, managerVars, appVars, entered>>

\* ~GeometricScene(): cleanup()
GeoDestructor ==
    /\ ~geo.destroyed
    /\ LET r == GeometricScene_cleanup(geo)
       IN  geo' = [r.state EXCEPT !.destroyed = TRUE] /\ effects' = r.fx
    /\ lastCall' = SceneCall("GeometricScene", "destructor", <<>>)
    /\ UNCHANGED <<tree, bullet, registry, world, managerVars, appVars, entered>>

GeoUpdate(frameTime) ==
    /\ ~geo.destroyed
    /\ geo.time + frameTime <= MaxTime
    /\ LET r == GeometricScene_update(geo, frameTime)
       IN  geo' = r.state /\ effects' = r.fx
    /\ lastCall' = SceneCall("GeometricScene", "update", <<frameTime>>)
    /\ UNCHANGED <<tree, bullet, registry, world, managerVars, appVars, entered>>

GeoDraw ==
    /\ ~geo.destroyed
    /\ effects' = GeometricScene_draw(geo)
    /\ lastCall' = SceneCall("GeometricScene", "draw", <<>>)
    /\ UNCHANGED <<tree, geo, bullet, registry, world, managerVars, appVars, entered>>

BulletInitialize(groundValid, charExists, charValid) ==
    /\ ~bullet.destroyed
    /\ LET r == BulletPhysicsScene_initialize(bullet, registry, world,
                                              groundValid, charExists, charValid)
       IN  /\ bullet' = r.state
           /\ registry' = r.registry
           /\ world' = r.world
           /\ effects' = r.fx
    /\ lastCall' = SceneCall("BulletPhysicsScene", "initialize",
                             <<groundValid, charExists, charValid>>)
    /\ entered' = Entered(entered, "BulletPhysicsScene", bullet, bullet')
    /\ UNCHANGED <<tree, geo, managerVars, appVars>>

BulletCleanup ==
    /\ ~bullet.destroyed
    /\ LET r == BulletPhysicsScene_cleanup(bullet, registry, world)
       IN  /\ bullet' = r.state
           /\ registry' = r.registry
           /\ world' = r.world
           /\ effects' = r.fx
    /\ lastCall' = SceneCall("BulletPhysicsScene", "cleanup", <<>>)
    /\ UNCHANGED <<tree, geo, managerVars, appVars, entered>>

\* ~BulletPhysicsScene(): cleanup()
BulletDestructor ==
    /\ ~bullet.destroyed
    /\ LET r == BulletPhysicsScene_cleanup(bullet, registry, world)
       IN  /\ bullet' = [r.state EXCEPT !.destroyed = TRUE]
           /\ registry' = r.registry
           /\ world' = r.world
           /\ effects' = r.fx
    /\ lastCall' = SceneCall("BulletPhysicsScene", "destructor", <<>>)
    /\ UNCHANGED <<tree, geo, managerVars, appVars, entered>>

BulletUpdate ==
    /\ ~bullet.destroyed
    /\ effects' = BulletPhysicsScene_update(bullet, registry)
    /\ lastCall' = SceneCall("BulletPhysicsScene", "update", <<>>)
    /\ UNCHANGED <<tree, geo, bullet, registry, world, managerVars, appVars, entered>>

BulletDraw ==
    /\ ~bullet.destroyed
    /\ effects' = BulletPhysicsScene_draw(bullet, registry)
    /\ lastCall' = SceneCall("BulletPhysicsScene", "draw", <<>>)
    /\ UNCHANGED <<tree, geo, bullet, registry, world, managerVars, appVars, entered>>

SceneNext ==
    \/ \E fileExists \in BOOLEAN, modelValid \in BOOLEAN :
          TreeInitialize(fileExists, modelValid)
    \/ TreeCleanup
    \/ TreeDestructor
    \/ TreeUpdate
    \/ TreeDraw
    \/ \E modelValid \in BOOLEAN : GeoInitialize(modelValid)
    \/ GeoCleanup
    \/ GeoDestructor
    \/ \E frameTime \in 1..1 : GeoUpdate(frameTime)
    \/ GeoDraw
    \/ \E groundValid \in BOOLEAN, charExists \in BOOLEAN, charValid \in BOOLEAN :
          BulletInitialize(groundValid, charExists, charValid)
    \/ BulletCleanup
    \/ BulletDestructor
    \/ BulletUpdate
    \/ BulletDraw

SceneSpec == Init /\ [][SceneNext]_vars

----------------------------------------------------------------------------
\* RenderSystem and BulletPhysicsScene::draw applied to any registry

\* Bound: entities in a registry handed to the render system
MaxEntities == 2

ZeroXScale == <<0, 1, 1>>

\* The component combinations an entity can carry
\* (Renderable.hasModel exists only with a Renderable)
EntityShapes ==
    {e \in {Entity(0, IF g \/ n THEN 0 ELSE kBoxMass, r, h, g, n, sc) :
               r \in BOOLEAN, h \in BOOLEAN, g \in BOOLEAN, n \in BOOLEAN,
               sc \in {UnitScale, GroundScale, ZeroXScale}} :
        e.renderable \/ ~e.hasModel}

\* The registries of n entities; entity i owns rigid body i
Registries(n) ==
    {[i \in 1..n |-> [f[i] EXCEPT !.body = i]] : f \in [1..n -> EntityShapes]}

RenderInit ==
    /\ revision \in Revisions
    /\ scenes = <<>>
    /\ currentSceneIndex = 0
    /\ isInitialized = [s \in SceneIds |-> FALSE]
    /\ calls = <<>>
    /\ lastOp = Op("none", 0, 0, NoTarget)
    /\ prevOp = Op("none", 0, 0, NoTarget)
    /\ run = NoRun
    /\ terminated = FALSE
    /\ everThrew = FALSE
    /\ tree = TreeNew
    /\ geo = GeoNew
    /\ bullet = [setupPhysicsWorld(BulletNew) EXCEPT !.isInitialized = TRUE]
    /\ \E n \in 0..MaxEntities : registry \in Registries(n)
    /\ world = {registry[i].body : i \in 1..Len(registry)}
    /\ effects = <<>>
    /\ lastCall = NoCall
    /\ entered = NotEntered
    /\ phys = PhysNone
    /\ imgui = ImGuiNew
    /\ loop = LoopNone

RenderDrawGround ==
    /\ effects' = RenderSystem_drawGround(registry)
    /\ lastCall' = SceneCall("RenderSystem", "drawGround", <<>>)
    /\ UNCHANGED <<tree, geo, bullet, registry, world, managerVars, appVars, entered>>

RenderDraw ==
    /\ effects' = RenderSystem_draw(registry)
    /\ lastCall' = SceneCall("RenderSystem", "draw", <<>>)
    /\ UNCHANGED <<tree, geo, bullet, registry, world, managerVars, appVars, entered>>

RenderNext ==
    \/ RenderDrawGround
    \/ RenderDraw
    \/ BulletDraw

RenderSpec == RenderInit /\ [][RenderNext]_vars

TypeOK ==
    /\ revision \in Revisions
    /\ scenes \in Seq(SceneIds)
    /\ currentSceneIndex \in 0..MaxScenes
    /\ isInitialized \in [SceneIds -> BOOLEAN]
    /\ terminated \in BOOLEAN

----------------------------------------------------------------------------
\* Vocabulary of the properties

Switches == {"switchToScene", "switchToNextScene", "switchToPreviousScene"}

\* The last manager call handed a valid index to activateScene
Activated == lastOp.target # NoTarget

\* The scene that was current when the last call was made, and its target
FromScene == At(lastOp.from)
TargetScene == At(lastOp.target)

\* The calls of one method on one scene made by the last manager call
CallsIn(cs, m, s) == {i \in 1..Len(cs) : cs[i].method = m /\ cs[i].scene = s}
CallsOf(m, s) == CallsIn(calls, m, s)

LifecycleCalls ==
    {i \in 1..Len(calls) : calls[i].method \in {"cleanup", "initialize"}}

SomeCallThrew == \E i \in 1..Len(calls) : calls[i].threw

----------------------------------------------------------------------------
\* C1: once a scene is registered, getCurrentScene() is non-null and
\* getCurrentSceneIndex() < getSceneCount(), whatever calls follow.
SingleActiveScene ==
    getSceneCount >= 1 =>
        /\ getCurrentScene # NullScene
        /\ getCurrentSceneIndex < getSceneCount

\* a switch has wrapped to the last of three scenes
SingleActiveSceneWitness ==
    /\ getSceneCount = MaxScenes
    /\ lastOp.op = "switchToPreviousScene"
    /\ lastOp.from = 0
    /\ currentSceneIndex = getSceneCount - 1
    /\ getCurrentScene = MaxScenes

\* C2: N consecutive switchToNextScene calls on N >= 1 scenes return the
\* current index to where the run started, having visited every index once.
CyclicNavigation ==
    /\ Cardinality(run.visited) = run.len
    /\ (getSceneCount >= 1 /\ run.len = getSceneCount) =>
          /\ currentSceneIndex = run.start
          /\ run.visited = 0..(getSceneCount - 1)

\* a full cycle over three scenes that started in the middle
CyclicNavigationWitness ==
    /\ getSceneCount = MaxScenes
    /\ run.len = MaxScenes
    /\ run.start = 1
    /\ currentSceneIndex = 1

\* C3: switchToPreviousScene hands activateScene (current - 1 + count) mod count,
\* and undoes switchToNextScene (and is undone by it) on the current index.
PreviousInvertsNext ==
    /\ (lastOp.op = "switchToPreviousScene" /\ getSceneCount >= 1) =>
          /\ lastOp.target = (lastOp.from - 1 + getSceneCount) % getSceneCount
          /\ ~terminated => currentSceneIndex = lastOp.target
    /\ (/\ lastOp.op = "switchToPreviousScene"
        /\ prevOp.op = "switchToNextScene"
        /\ ~terminated) => currentSceneIndex = prevOp.from
    /\ (/\ lastOp.op = "switchToNextScene"
        /\ prevOp.op = "switchToPreviousScene"
        /\ ~terminated) => currentSceneIndex = prevOp.from

\* previous from index 0 of three scenes, right after a next that wrapped to 0
PreviousInvertsNextWitness ==
    /\ getSceneCount = MaxScenes
    /\ lastOp.op = "switchToPreviousScene"
    /\ prevOp.op = "switchToNextScene"
    /\ lastOp.from = 0
    /\ currentSceneIndex = MaxScenes - 1

\* C4: a switch from current scene A to a different scene B calls A.cleanup()
\* once, then B.initialize() once, and no other lifecycle method.
TransitionExclusivity ==
    (/\ lastOp.op \in Switches
     /\ Activated
     /\ lastOp.target # lastOp.from) =>
        /\ Len(calls) = 2
        /\ calls[1].method = "cleanup" /\ calls[1].scene = FromScene
        /\ calls[2].method = "initialize" /\ calls[2].scene = TargetScene

\* C5: activating the index that is already current never calls cleanup().
NoCleanupOfTarget ==
    (Activated /\ lastOp.target = lastOp.from) =>
        CallsOf("cleanup", TargetScene) = {}

\* C6: a failing cleanup() or initialize() never propagates out of the manager.
FailureSwallowed == SomeCallThrew => ~terminated

\* C7: when a lifecycle call fails in a transition to a valid index, the index
\* still ends at the target and the target's initialize() was attempted.
FailedTransitionCompletes ==
    (Activated /\ SomeCallThrew) =>
        /\ currentSceneIndex = lastOp.target
        /\ CallsOf("initialize", TargetScene) # {}

\* C8: switchToScene(index) with index >= getSceneCount() changes nothing
\* and calls no lifecycle method.
SwitchOutOfBoundsNoOp ==
    [][(lastOp'.op = "switchToScene" /\ lastOp'.arg >= Len(scenes)) =>
          /\ UNCHANGED <<scenes, currentSceneIndex, isInitialized, terminated>>
          /\ calls' = <<>>]_vars

\* an out-of-range switch made while an initialized scene is current
SwitchOutOfBoundsNoOpWitness ==
    /\ lastOp.op = "switchToScene"
    /\ lastOp.arg >= getSceneCount
    /\ getSceneCount >= 2
    /\ isInitialized[getCurrentScene]

\* C9: the first non-null registerScene makes its scene current at index 0 and
\* calls its initialize() once; a later one only appends.
RegisterActivatesFirstOnly ==
    [][(lastOp'.op = "registerScene" /\ lastOp'.arg # NullScene) =>
          /\ scenes' = Append(scenes, lastOp'.arg)
          /\ IF Len(scenes) = 0
             THEN /\ currentSceneIndex' = 0
                  /\ getCurrentScene' = lastOp'.arg
                  /\ Cardinality(CallsIn(calls', "initialize", lastOp'.arg)) = 1
                  /\ \A i \in 1..Len(calls') : calls'[i].scene = lastOp'.arg
             ELSE /\ calls' = <<>>
                  /\ UNCHANGED <<currentSceneIndex, isInitialized>>]_vars

\* a second scene was registered while the first one is current and initialized
RegisterActivatesFirstOnlyWitness ==
    /\ lastOp.op = "registerScene"
    /\ lastOp.arg = 2
    /\ getSceneCount = 2
    /\ currentSceneIndex = 0
    /\ isInitialized[1]
    /\ ~isInitialized[2]

\* C10: registerScene(null) changes neither the scene count, nor the current
\* index, nor any scene's state, and calls no lifecycle method.
RegisterNullNoOp ==
    [][(lastOp'.op = "registerScene" /\ lastOp'.arg = NullScene) =>
          /\ UNCHANGED <<scenes, currentSceneIndex, isInitialized, terminated>>
          /\ calls' = <<>>]_vars

\* a null registration on a manager that holds scenes
RegisterNullNoOpWitness ==
    /\ lastOp.op = "registerScene"
    /\ lastOp.arg = NullScene
    /\ getSceneCount >= 1
    /\ isInitialized[getCurrentScene]

\* C11: on a manager without scenes, switchToNextScene, switchToPreviousScene,
\* update and draw leave the index at 0 and call no scene method, and
\* getCurrentScene() returns none.
EmptyManagerInert ==
    getSceneCount = 0 =>
        /\ currentSceneIndex = 0
        /\ calls = <<>>
        /\ getCurrentScene = NullScene
        /\ \A s \in SceneIds : ~isInitialized[s]
        /\ ~terminated

\* draw() after switchToPreviousScene(), both on the empty manager
EmptyManagerInertWitness ==
    /\ getSceneCount = 0
    /\ lastOp.op = "draw"
    /\ prevOp.op = "switchToPreviousScene"

\* C12: scenes keep registration order and the collection never shrinks or
\* reorders: getCurrentScene() is the scene registered at position
\* getCurrentSceneIndex().  Scene objects are numbered by registration order.
RegistrationOrderKept ==
    /\ [](/\ \A i \in 1..Len(scenes) : scenes[i] = i
          /\ getSceneCount >= 1 => getCurrentScene = getCurrentSceneIndex + 1)
    /\ [][/\ Len(scenes') >= Len(scenes)
          /\ SubSeq(scenes', 1, Len(scenes)) = scenes]_vars

\* A, B, C registered and switchToNextScene called twice: index 2, scene C
RegistrationOrderKeptWitness ==
    /\ scenes = <<1, 2, 3>>
    /\ run.len = 2
    /\ run.start = 0
    /\ currentSceneIndex = 2
    /\ getCurrentScene = 3

\* C17: when a registering or switching call has returned and no lifecycle
\* call has failed, the current scene is the one initialized scene: every
\* other registered scene is Uninitialized and the current one has been
\* initialized since its last cleanup().
FrameBoundaryConsistent ==
    (~everThrew /\ ~terminated) =>
        \A i \in 1..Len(scenes) :
            isInitialized[scenes[i]] <=> (i = currentSceneIndex + 1)

\* the middle one of three scenes re-activated by switchToScene(1)
FrameBoundaryConsistentWitness ==
    /\ ~everThrew
    /\ getSceneCount = MaxScenes
    /\ lastOp.op = "switchToScene"
    /\ lastOp.from = 1
    /\ lastOp.target = 1
    /\ prevOp.op = "switchToNextScene"
    /\ isInitialized[2]

----------------------------------------------------------------------------
\* The entity factories of the physics scene applied to any registry, with
\* the world set up, and the render passes over the result

\* Positions handed to createPhysicsEntity
Positions3 == {groundPosition, boxPosition(2, 2)}

CreatePhysicsEntity(position, mass, hasModel, modelValid, isGround) ==
    /\ Len(registry) < MaxEntities
    /\ LET r == createPhysicsEntity(registry, world, bullet.dynamicsWorld,
                                    position, mass, hasModel, modelValid, isGround)
       IN  /\ registry' = r.registry
           /\ world' = r.world
           /\ effects' = r.fx
    /\ lastCall' = SceneCall("BulletPhysicsScene", "createPhysicsEntity",
                             <<position, mass, hasModel, modelValid, isGround>>)
    /\ UNCHANGED <<tree, geo, bullet, managerVars, appVars, entered>>

\* (applied to a registry that holds at most the ground)
CreateFallingBoxes ==
    /\ Len(registry) <= 1
    /\ LET r == createFallingBoxes(registry, world, bullet.dynamicsWorld)
       IN  /\ registry' = r.registry
           /\ world' = r.world
           /\ effects' = r.fx
    /\ lastCall' = SceneCall("BulletPhysicsScene", "createFallingBoxes", <<>>)
    /\ UNCHANGED <<tree, geo, bullet, managerVars, appVars, entered>>

EntityNext ==
    \/ \E position \in Positions3, mass \in {0, kBoxMass}, hasModel \in BOOLEAN,
          modelValid \in BOOLEAN, isGround \in BOOLEAN :
          CreatePhysicsEntity(position, mass, hasModel, modelValid, isGround)
    \/ CreateFallingBoxes
    \/ RenderDrawGround
    \/ RenderDraw
    \/ BulletDraw

\* The manager plays no part here: one revision is enough
EntityInit == RenderInit /\ revision = "scene_manager.cpp"

EntitySpec == EntityInit /\ [][EntityNext]_vars

----------------------------------------------------------------------------
\* PhysicsSystem::update applied to any world and registry

\* Bound: entities in a registry handed to PhysicsSystem::update
MaxBodies == 2

kMaxSubSteps == 10

\* The fixed time step of stepSimulation(deltaTime, kMaxSubSteps): the call
\* passes none, which leaves Bullet's 1/60 s (kFixedTimeStep names the same)
kFixedTimeStep == <<1, 60>>

\* A call made by PhysicsSystem::update
Ev(call, entity, args) == [call |-> call, entity |-> entity, args |-> args]

\* A btQuaternion, read through its accessors x(), y(), z(), w()
btQuaternion(x, y, z, w) == [x |-> x, y |-> y, z |-> z, w |-> w]

\* A btTransform: getOrigin() and getRotation()
btTransform(origin, rotation) == [origin |-> origin, rotation |-> rotation]

\* Two world transforms no two components of which agree
BulletTransforms ==
    {btTransform(<<11, 12, 13>>, btQuaternion(1, 2, 3, 4)),
     btTransform(<<21, 22, 23>>, btQuaternion(5, 6, 7, 8))}

\* An entity with Transform and PhysicsBody: whether rigidBody != nullptr,
\* whether the body has a motion state, the transform the motion state holds
\* and the transform the body holds
PhysicsEntity(hasBody, hasMotionState, motionState, bodyTransform) ==
    [hasBody |-> hasBody, hasMotionState |-> hasMotionState,
     motionState |-> motionState, bodyTransform |-> bodyTransform,
     position |-> ZeroVector, rotation |-> IdentityQuaternion]

\* The entities as stepSimulation can leave them: every body gets new world
\* transforms, the motion state's unlike the body's; Transforms are untouched
PhysicsEntities ==
    {PhysicsEntity(b, m, s, t) : b \in BOOLEAN, m \in BOOLEAN,
                                s \in BulletTransforms,
                                t \in BulletTransforms} 

Stepped(ents) ==
    {after \in [1..Len(ents) -> PhysicsEntities] :
        \A i \in 1..Len(ents) :
           /\ after[i].hasBody = ents[i].hasBody
           /\ after[i].hasMotionState = ents[i].hasMotionState
           /\ after[i].motionState # after[i].bodyTransform
           /\ ~ents[i].hasBody
              => /\ after[i].motionState = ents[i].motionState
                 /\ after[i].bodyTransform = ents[i].bodyTransform}

\* Vector3{origin.x(), origin.y(), origin.z()}
ToVector3(origin) == <<origin[1], origin[2], origin[3]>>

\* Quaternion{q.w(), q.x(), q.y(), q.z()}: Bullet's order kept
ToQuaternionBulletOrder(q) == Quaternion(q.w, q.x, q.y, q.z)

\* Quaternion{bulletQuat.x(), bulletQuat.y(), bulletQuat.z(), bulletQuat.w()}
ToQuaternion(q) == Quaternion(q.x, q.y, q.z, q.w)

\* The btTransform the loop reads for an entity: from the motion state if
\* there is one, from the body otherwise
WorldTransformOf(e) ==
    IF e.hasMotionState THEN e.motionState ELSE e.bodyTransform

\* One pass of the loop body: after is the entity as the engine left it, t
\* the Transform being overwritten
SyncEntity(after, t) ==
    IF ~after.hasBody
    THEN [after EXCEPT !.position = t.position, !.rotation = t.rotation]
    ELSE [after EXCEPT !.position = ToVector3(WorldTransformOf(after).origin),
                       !.rotation = ToQuaternion(WorldTransformOf(after).rotation)]

\* The calls of one pass of the loop body
SyncCalls(e, i) ==
    IF ~e.hasBody THEN <<>>
    ELSE <<Ev(IF e.hasMotionState THEN "getMotionState()->getWorldTransform"
              ELSE "getWorldTransform", i, <<>>),
           Ev("transform.position =", i, <<>>),
           Ev("transform.rotation =", i, <<>>)>>

\* PhysicsSystem::update past its null check: stepSimulation, then the loop
StepAndSync(p, deltaTime, after) ==
    [worldSet |-> p.worldSet,
     ents |-> [i \in 1..Len(p.ents) |-> SyncEntity(after[i], p.ents[i])],
     trace |-> <<Ev("stepSimulation", NoEntity,
                    <<deltaTime, kMaxSubSteps, kFixedTimeStep>>)>>
               \o Flatten([i \in 1..Len(p.ents) |-> SyncCalls(p.ents[i], i)])]

\* PhysicsSystem::update without its null check
PhysicsSystem_updateWorldUnchecked(p, deltaTime, after) ==
    StepAndSync(p, deltaTime, after)

\* PhysicsSystem::update(registry, dynamicsWorld, deltaTime); after is what
\* stepSimulation makes of the bodies
PhysicsSystem_updateWorld(p, deltaTime, after) ==
    IF ~p.worldSet
    THEN [p EXCEPT !.trace = <<>>]
    ELSE StepAndSync(p, deltaTime, after)

PhysicsInit ==
    /\ Init
    /\ revision = "scene_manager.cpp"

\* The caller hands over a world (or none) and a registry
PhysicsSetup(worldSet, ents) ==
    /\ phys = PhysNone
    /\ phys' = [worldSet |-> worldSet, ents |-> ents, trace |-> <<>>]
    /\ lastCall' = SceneCall("PhysicsSystem", "setup", <<worldSet>>)
    /\ UNCHANGED <<tree, geo, bullet, registry, world, effects, entered,
                   managerVars, imgui, loop>>

PhysicsUpdate(deltaTime, after) ==
    /\ phys # PhysNone
    /\ phys' = PhysicsSystem_updateWorld(phys, deltaTime, after)
    /\ lastCall' = SceneCall("PhysicsSystem", "update", <<deltaTime>>)
    /\ UNCHANGED <<tree, geo, bullet, registry, world, effects, entered,
                   managerVars, imgui, loop>>

PhysicsNext ==
    \/ \E worldSet \in BOOLEAN, n \in 0..MaxBodies :
          \E ents \in [1..n -> PhysicsEntities] :
             /\ \A i \in 1..n : ents[i].motionState # ents[i].bodyTransform
             /\ ~(worldSet = FALSE /\ n = 0)
             /\ PhysicsSetup(worldSet, ents)
    \/ \E deltaTime \in 1..2 :
          \E after \in (IF phys.worldSet THEN Stepped(phys.ents) ELSE {phys.ents}) :
             PhysicsUpdate(deltaTime, after)

PhysicsSpec == PhysicsInit /\ [][PhysicsNext]_vars

----------------------------------------------------------------------------
\* ImGuiManager driven by any sequence of calls

\* Bound: backend initializations of one ImGuiManager
MaxLifecycles == 2

\* A call into Dear ImGui or its OpenGL3 backend
ImFx(call, by) == Fx(call, NoEntity, <<>>, by)

\* ImGuiManager::initialize()
ImGuiManager_initialize(m) ==
    IF m.initialized
    THEN [state |-> m, fx |-> <<>>]
    ELSE
    [state |-> [m EXCEPT !.initialized = TRUE, !.backend = "init",
                         !.inits = @ + 1,
                         !.wantMouse = FALSE, !.wantKeyboard = FALSE],
     fx |-> <<ImFx("ImGui::CreateContext", "ImGuiManager::initialize"),
              ImFx("ImGui::StyleColorsDark", "ImGuiManager::initialize"),
              ImFx("ImGui_ImplOpenGL3_Init", "ImGuiManager::initialize"),
              ImFx("setupInput", "ImGuiManager::initialize")>>]

\* ImGuiManager::beginFrame(); NewFrame decides what the io wants
ImGuiManager_beginFrame(m, wantMouse, wantKeyboard) ==
    IF ~m.initialized
    THEN [state |-> m, fx |-> <<>>]
    ELSE [state |-> [m EXCEPT !.wantMouse = wantMouse,
                              !.wantKeyboard = wantKeyboard],
          fx |-> <<ImFx("updateInput", "ImGuiManager::beginFrame"),
                   ImFx("ImGui_ImplOpenGL3_NewFrame", "ImGuiManager::beginFrame"),
                   ImFx("ImGui::NewFrame", "ImGuiManager::beginFrame")>>]

\* ImGuiManager::endFrame(); hasDrawData: GetDrawData() != nullptr
ImGuiManager_endFrame(m, hasDrawData) ==
    IF ~m.initialized
    THEN [state |-> m, fx |-> <<>>]
    ELSE [state |-> m,
          fx |-> <<ImFx("ImGui::Render", "ImGuiManager::endFrame")>>
                 \o (IF hasDrawData
                     THEN <<ImFx("ImGui_ImplOpenGL3_RenderDrawData",
                                 "ImGuiManager::endFrame")>>
                     ELSE <<>>)]

\* ImGuiManager::shutdown() without its initialized guard
ImGuiManager_shutdownUnguarded(m) ==
    [state |-> [m EXCEPT !.initialized = FALSE, !.backend = "shutdown",
                         !.shutdowns = @ + 1],
     fx |-> <<ImFx("ImGui_ImplOpenGL3_Shutdown", "ImGuiManager::shutdown"),
              ImFx("ImGui::DestroyContext", "ImGuiManager::shutdown")>>]

\* ImGuiManager::shutdown()
ImGuiManager_shutdown(m) ==
    IF ~m.initialized
    THEN [state |-> m, fx |-> <<>>]
    ELSE [state |-> [m EXCEPT !.initialized = FALSE, !.backend = "shutdown",
                              !.shutdowns = @ + 1],
          fx |-> <<ImFx("ImGui_ImplOpenGL3_Shutdown", "ImGuiManager::shutdown"),
                   ImFx("ImGui::DestroyContext", "ImGuiManager::shutdown")>>]

\* ImGuiManager::wantsCaptureMouse()
ImGuiManager_wantsCaptureMouse(m) ==
    IF ~m.initialized THEN FALSE ELSE m.wantMouse

\* ImGuiManager::wantsCaptureKeyboard()
ImGuiManager_wantsCaptureKeyboard(m) ==
    IF ~m.initialized THEN FALSE ELSE m.wantKeyboard

ImGuiCall(method, in) == SceneCall("ImGuiManager", method, in)

ImGuiFrame ==
    UNCHANGED <<tree, geo, bullet, registry, world, entered, managerVars,
                phys, loop>>

ImGuiInitialize ==
    /\ ~imgui.destroyed
    /\ imgui.initialized \/ imgui.inits < MaxLifecycles
    /\ LET r == ImGuiManager_initialize(imgui)
       IN  imgui' = r.state /\ effects' = r.fx
    /\ lastCall' = ImGuiCall("initialize", <<>>)
    /\ ImGuiFrame

ImGuiBeginFrame(wantMouse, wantKeyboard) ==
    /\ ~imgui.destroyed
    /\ LET r == ImGuiManager_beginFrame(imgui, wantMouse, wantKeyboard)
       IN  imgui' = r.state /\ effects' = r.fx
    /\ lastCall' = ImGuiCall("beginFrame", <<>>)
    /\ ImGuiFrame

ImGuiEndFrame(hasDrawData) ==
    /\ ~imgui.destroyed
    /\ LET r == ImGuiManager_endFrame(imgui, hasDrawData)
       IN  imgui' = r.state /\ effects' = r.fx
    /\ lastCall' = ImGuiCall("endFrame", <<>>)
    /\ ImGuiFrame

ImGuiShutdown ==
    /\ ~imgui.destroyed
    /\ LET r == ImGuiManager_shutdown(imgui)
       IN  imgui' = r.state /\ effects' = r.fx
    /\ lastCall' = ImGuiCall("shutdown", <<>>)
    /\ ImGuiFrame

\* ~ImGuiManager(): shutdown()
ImGuiDestroy ==
    /\ ~imgui.destroyed
    /\ LET r == ImGuiManager_shutdown(imgui)
       IN  imgui' = [r.state EXCEPT !.destroyed = TRUE] /\ effects' = r.fx
    /\ lastCall' = ImGuiCall("~ImGuiManager", <<>>)
    /\ ImGuiFrame

ImGuiWantsCaptureMouse ==
    /\ ~imgui.destroyed
    /\ imgui' = [imgui EXCEPT !.returned = ImGuiManager_wantsCaptureMouse(imgui)]
    /\ effects' = <<>>
    /\ lastCall' = ImGuiCall("wantsCaptureMouse", <<>>)
    /\ ImGuiFrame

ImGuiWantsCaptureKeyboard ==
    /\ ~imgui.destroyed
    /\ imgui' = [imgui EXCEPT !.returned = ImGuiManager_wantsCaptureKeyboard(imgui)]
    /\ effects' = <<>>
    /\ lastCall' = ImGuiCall("wantsCaptureKeyboard", <<>>)
    /\ ImGuiFrame

ImGuiNext ==
    \/ ImGuiInitialize
    \/ \E wantMouse \in BOOLEAN, wantKeyboard \in BOOLEAN :
          ImGuiBeginFrame(wantMouse, wantKeyboard)
    \/ \E hasDrawData \in BOOLEAN : ImGuiEndFrame(hasDrawData)
    \/ ImGuiShutdown
    \/ ImGuiDestroy
    \/ ImGuiWantsCaptureMouse
    \/ ImGuiWantsCaptureKeyboard

ImGuiInit ==
    /\ Init
    /\ revision = "scene_manager.cpp"

ImGuiSpec == ImGuiInit /\ [][ImGuiNext]_vars

----------------------------------------------------------------------------
\* The two mains and their game loops

Variants == {"tab", "imgui"}

\* if (IsKeyPressed(KEY_F4)) cameraTrackingEnabled = !cameraTrackingEnabled
F4Step(l, pressed) ==
    [Advance(l) EXCEPT !.cameraTrackingEnabled = IF pressed THEN ~@ ELSE @]

\* A click outside ImGui re-enables camera tracking
ClickStep(l, pressed) ==
    [Advance(l) EXCEPT !.cameraTrackingEnabled =
        IF ~l.cameraTrackingEnabled /\ ~l.imguiWantsMouse /\ pressed
        THEN TRUE ELSE @]

\* The cursor update that calls EnableCursor / DisableCursor on every pass
CursorStepEveryPass(l) ==
    IF ~l.cameraTrackingEnabled \/ l.imguiWantsMouse
    THEN [Advance(l) EXCEPT !.call = "EnableCursor",
                            !.lastCursor = "EnableCursor",
                            !.cursorEnabled = TRUE]
    ELSE [Advance(l) EXCEPT !.call = "DisableCursor",
                            !.lastCursor = "DisableCursor",
                            !.cursorEnabled = FALSE]

\* The cursor update: show the cursor when tracking is off or ImGui wants the
\* mouse, hide it otherwise, calling raylib only when cursorEnabled is stale
CursorStep(l) ==
    IF ~l.cameraTrackingEnabled \/ l.imguiWantsMouse
    THEN IF ~l.cursorEnabled
         THEN [Advance(l) EXCEPT !.call = "EnableCursor",
                                 !.lastCursor = "EnableCursor",
                                 !.cursorEnabled = TRUE]
         ELSE Advance(l)
    ELSE IF l.cursorEnabled
         THEN [Advance(l) EXCEPT !.call = "DisableCursor",
                                 !.lastCursor = "DisableCursor",
                                 !.cursorEnabled = FALSE]
         ELSE Advance(l)

\* UpdateCamera: every iteration in the TAB loop; in the ImGui loop only when
\* tracking is on and ImGui wants neither the mouse nor the keyboard
CameraStep(l) ==
    [Advance(l) EXCEPT !.cameraUpdated =
        IF l.variant = "tab" THEN TRUE
        ELSE l.cameraTrackingEnabled /\ ~l.imguiWantsMouse
             /\ ~l.imguiWantsKeyboard]

\* What a statement of main or runGameLoop that is no manager call leaves alone
LoopFrame ==
    UNCHANGED <<managerVars, tree, geo, bullet, registry, world, lastCall,
                entered, phys>>

\* main up to the creation of the SceneManager; fileExists: FileExists(kModelPath)
LoopMain(variant, fileExists) ==
    /\ loop = LoopNone
    /\ scenes = <<>>
    /\ loop' = [LoopNone EXCEPT !.variant = variant, !.pc = "register",
                                !.toRegister = IF variant = "tab" /\ fileExists
                                               THEN 2 ELSE 1]
    /\ IF variant = "imgui"
       THEN LET r == ImGuiManager_initialize(imgui)
            IN  imgui' = r.state /\ effects' = r.fx
       ELSE UNCHANGED <<imgui, effects>>
    /\ LoopFrame

\* main: sceneManager.registerScene(...); the concrete scenes throw nothing
LoopRegister ==
    /\ loop.pc = "register"
    /\ registerScene(Len(scenes) + 1, FALSE, FALSE)

\* runGameLoop before the while: in the ImGui variant tracking on, cursor off
\* and DisableCursor()
LoopEnter ==
    /\ loop.pc = "enter"
    /\ loop' = IF loop.variant = "imgui"
               THEN [Advance(loop) EXCEPT !.cameraTrackingEnabled = TRUE,
                                          !.cursorEnabled = FALSE,
                                          !.call = "DisableCursor",
                                          !.lastCursor = "DisableCursor",
                                          !.frame = <<>>]
               ELSE [Advance(loop) EXCEPT !.frame = <<>>]
    /\ UNCHANGED <<imgui, effects>>
    /\ LoopFrame

\* while (!WindowShouldClose()): a new iteration, or the end of the loop
LoopTop(shouldClose) ==
    /\ loop.pc = "top"
    /\ loop' = IF shouldClose
               THEN [loop EXCEPT !.pc = "exit", !.call = "none"]
               ELSE [Advance(loop) EXCEPT !.frame = <<>>,
                                          !.cameraUpdated = FALSE]
    /\ UNCHANGED <<imgui, effects>>
    /\ LoopFrame

\* TAB loop: if (IsKeyPressed(kKeySwitchScene)) sceneManager.switchToNextScene()
LoopInput(pressed) ==
    /\ loop.pc = "input"
    /\ IF pressed
       THEN switchToNextScene(FALSE, FALSE)
       ELSE /\ loop' = Advance(loop)
            /\ UNCHANGED <<imgui, effects>>
            /\ LoopFrame

LoopBeginFrame(wantMouse, wantKeyboard) ==
    /\ loop.pc = "beginFrame"
    /\ LET r == ImGuiManager_beginFrame(imgui, wantMouse, wantKeyboard)
       IN  imgui' = r.state /\ effects' = r.fx
    /\ loop' = Advance(loop)
    /\ LoopFrame

\* imguiWantsMouse and imguiWantsKeyboard of the iteration
LoopWants ==
    /\ loop.pc = "wants"
    /\ loop' = [Advance(loop) EXCEPT
                   !.imguiWantsMouse = ImGuiManager_wantsCaptureMouse(imgui),
                   !.imguiWantsKeyboard = ImGuiManager_wantsCaptureKeyboard(imgui)]
    /\ UNCHANGED <<imgui, effects>>
    /\ LoopFrame

LoopF4(pressed) ==
    /\ loop.pc = "f4"
    /\ loop' = F4Step(loop, pressed)
    /\ UNCHANGED <<imgui, effects>>
    /\ LoopFrame

LoopClick(pressed) ==
    /\ loop.pc = "click"
    /\ loop' = ClickStep(loop, pressed)
    /\ UNCHANGED <<imgui, effects>>
    /\ LoopFrame

LoopCursor ==
    /\ loop.pc = "cursor"
    /\ loop' = CursorStep(loop)
    /\ UNCHANGED <<imgui, effects>>
    /\ LoopFrame

LoopCamera ==
    /\ loop.pc = "camera"
    /\ loop' = CameraStep(loop)
    /\ UNCHANGED <<imgui, effects>>
    /\ LoopFrame

LoopUpdate ==
    /\ loop.pc = "update"
    /\ update

LoopDraw ==
    /\ loop.pc = "draw"
    /\ draw

\* renderControlPanel up to the Previous Scene button: nothing when the panel
\* was closed; closed: the user closes it in this frame
LoopPanelPrevious(closed, pressed) ==
    /\ loop.pc = "panelPrev"
    /\ IF loop.showControlPanel /\ getSceneCount > 0 /\ pressed /\ ~closed
       THEN switchToPreviousScene(FALSE, FALSE)
       ELSE /\ loop' = [Advance(loop) EXCEPT
                           !.showControlPanel = @ /\ ~closed]
            /\ UNCHANGED <<imgui, effects>>
            /\ LoopFrame

\* renderControlPanel: the Next Scene button
LoopPanelNext(pressed) ==
    /\ loop.pc = "panelNext"
    /\ IF loop.showControlPanel /\ getSceneCount > 0 /\ pressed
       THEN switchToNextScene(FALSE, FALSE)
       ELSE /\ loop' = Advance(loop)
            /\ UNCHANGED <<imgui, effects>>
            /\ LoopFrame

LoopEndFrame(hasDrawData) ==
    /\ loop.pc = "endFrame"
    /\ LET r == ImGuiManager_endFrame(imgui, hasDrawData)
       IN  imgui' = r.state /\ effects' = r.fx
    /\ loop' = Advance(loop)
    /\ LoopFrame

\* After the while: the ImGui loop restores the cursor, then main returns and
\* the ImGuiManager is destroyed
LoopExit ==
    /\ loop.pc = "exit"
    /\ loop' = IF loop.variant = "imgui" /\ loop.cursorEnabled
               THEN [loop EXCEPT !.pc = "done", !.call = "DisableCursor",
                                 !.lastCursor = "DisableCursor"]
               ELSE [loop EXCEPT !.pc = "done", !.call = "none"]
    /\ IF loop.variant = "imgui"
       THEN LET r == ImGuiManager_shutdown(imgui)
            IN  imgui' = [r.state EXCEPT !.destroyed = TRUE] /\ effects' = r.fx
       ELSE UNCHANGED <<imgui, effects>>
    /\ LoopFrame

LoopNext ==
    \/ \E variant \in Variants, fileExists \in BOOLEAN :
          LoopMain(variant, fileExists)
    \/ LoopRegister
    \/ LoopEnter
    \/ \E shouldClose \in BOOLEAN : LoopTop(shouldClose)
    \/ \E pressed \in BOOLEAN : LoopInput(pressed)
    \/ \E wantMouse \in BOOLEAN, wantKeyboard \in BOOLEAN :
          LoopBeginFrame(wantMouse, wantKeyboard)
    \/ LoopWants
    \/ \E pressed \in BOOLEAN : LoopF4(pressed)
    \/ \E pressed \in BOOLEAN : LoopClick(pressed)
    \/ LoopCursor
    \/ LoopCamera
    \/ LoopUpdate
    \/ LoopDraw
    \/ \E closed \in BOOLEAN, pressed \in BOOLEAN :
          LoopPanelPrevious(closed, pressed)
    \/ \E pressed \in BOOLEAN : LoopPanelNext(pressed)
    \/ \E hasDrawData \in BOOLEAN : LoopEndFrame(hasDrawData)
    \/ LoopExit

LoopSpec == Init /\ [][LoopNext]_vars

----------------------------------------------------------------------------
\* Vocabulary of the scene-level properties

\* The call a step made is a call of method m on some concrete scene
Called(c, methods) == c.method \in methods

\* isInitialized of the scene class named sc, in the given scene objects
InitializedOf(sc, t, g, b) ==
    CASE sc = "TreeScene" -> t.isInitialized
      [] sc = "GeometricScene" -> g.isInitialized
      [] sc = "BulletPhysicsScene" -> b.isInitialized
      [] OTHER -> FALSE

ConcreteScenes == {"TreeScene", "GeometricScene", "BulletPhysicsScene"}

\* C13: initialize() on an already Initialized TreeScene, GeometricScene or
\* BulletPhysicsScene changes no scene state (objects, entities, world, flags)
\* and acquires no resource (it has no effect at all).
InitializeIdempotent ==
    [][ ( /\ lastCall'.scene \in ConcreteScenes
          /\ Called(lastCall', {"initialize"})
          /\ InitializedOf(lastCall'.scene, tree, geo, bullet) )
        => ( effects' = <<>> /\ UNCHANGED SceneObjects ) ]_vars

\* initialize() was called on the Initialized physics scene holding its ground
\* and character, and on a GeometricScene whose animation had advanced
InitializeIdempotentWitness ==
    \/ /\ lastCall.scene = "BulletPhysicsScene"
       /\ lastCall.method = "initialize"
       /\ effects = <<>>
       /\ bullet.isInitialized
       /\ Len(registry) = 2
    \/ /\ lastCall.scene = "GeometricScene"
       /\ lastCall.method = "initialize"
       /\ effects = <<>>
       /\ geo.isInitialized
       /\ geo.time > 0

\* A scene object without the mark its destructor leaves
Alive(s) == [s EXCEPT !.destroyed = FALSE]

\* No effect occurs twice in a sequence of effects
NoDuplicates(fx) == \A i, j \in 1..Len(fx) : fx[i] = fx[j] => i = j

\* C14: cleanup() (and the destructor, which calls it) always leaves the scene
\* Uninitialized; on a scene that is not Initialized (never initialized, or
\* already cleaned up) it releases nothing and changes no state, so a second
\* cleanup or the destructor after a cleanup yields the state of one cleanup;
\* and one cleanup releases each resource at most once.
CleanupIdempotent ==
    [][ ( /\ lastCall'.scene \in ConcreteScenes
          /\ Called(lastCall', {"cleanup", "destructor"}) )
        => /\ ~InitializedOf(lastCall'.scene, tree', geo', bullet')
           /\ NoDuplicates(effects')
           /\ ~InitializedOf(lastCall'.scene, tree, geo, bullet)
              => /\ effects' = <<>>
                 /\ Alive(tree') = Alive(tree)
                 /\ Alive(geo') = Alive(geo)
                 /\ Alive(bullet') = Alive(bullet)
                 /\ UNCHANGED <<registry, world>> ]_vars

\* cleanup() released nothing on a GeometricScene that had been initialized,
\* animated and cleaned up before
CleanupIdempotentWitness ==
    /\ lastCall.scene = "GeometricScene"
    /\ lastCall.method \in {"cleanup", "destructor"}
    /\ effects = <<>>
    /\ ~geo.isInitialized
    /\ geo.objects = 0
    /\ geo.time > 0

\* C15: update() and draw() of a TreeScene, GeometricScene or BulletPhysicsScene
\* that is Uninitialized change no scene state, step no physics and issue no
\* draw call (they have no effect at all).
UninitializedFrameNoOp ==
    [][ ( /\ lastCall'.scene \in ConcreteScenes
          /\ Called(lastCall', {"update", "draw"})
          /\ ~InitializedOf(lastCall'.scene, tree, geo, bullet) )
        => ( effects' = <<>> /\ UNCHANGED SceneObjects ) ]_vars

\* update() did nothing on a GeometricScene that had been animated and was
\* cleaned up since
UninitializedFrameNoOpWitness ==
    /\ lastCall.scene = "GeometricScene"
    /\ lastCall.method = "update"
    /\ ~geo.isInitialized
    /\ geo.time > 0
    /\ effects = <<>>

\* The effects of a sequence that are calls of the given names
EffectsNamed(fx, names) == SelectSeq(fx, LAMBDA e : e.call \in names)

\* C16: TreeScene::initialize() on an Uninitialized scene whose model file is
\* missing or whose loaded model is invalid leaves the scene Uninitialized
\* with no object added, so draw() then draws nothing; with the file present
\* and the model valid (the first time or on a retry) it loads the model,
\* adds the one object and becomes Initialized.  An Uninitialized TreeScene
\* never holds an object.
TreeLoadFailure ==
    /\ [](~tree.isInitialized => tree.objects = 0)
    /\ [][ ( /\ lastCall'.scene = "TreeScene"
             /\ Called(lastCall', {"initialize"})
             /\ ~tree.isInitialized )
           => IF lastCall'.in[1] /\ lastCall'.in[2]
              THEN /\ tree'.isInitialized
                   /\ tree'.objects = 1
                   /\ Len(EffectsNamed(effects', {"LoadModel"})) = 1
                   /\ Len(EffectsNamed(effects', {"Scene::addObject"})) = 1
              ELSE /\ ~tree'.isInitialized
                   /\ tree'.objects = 0
                   /\ EffectsNamed(effects', {"Scene::addObject"}) = <<>>
                   /\ TreeScene_draw(tree') = <<>> ]_vars

\* initialize() loaded a model that turned out invalid and the scene stayed
\* Uninitialized
TreeLoadFailureWitness ==
    /\ lastCall = SceneCall("TreeScene", "initialize", <<TRUE, FALSE>>)
    /\ EffectsNamed(effects, {"LoadModel"}) # <<>>
    /\ ~tree.isInitialized
    /\ tree.objects = 0

\* The positions of the effects of a sequence that are calls of the given names
Positions(fx, names) == {k \in 1..Len(fx) : fx[k].call \in names}

\* C18: the rigid bodies in the world are those of the registry's entities
\* while the physics scene is Initialized, and none otherwise; cleanup() and
\* the destructor of an Initialized scene remove every body of the world from
\* it exactly once, all removals come before registry.clear(), which comes
\* before the dynamics world is deleted, and the registry is empty afterwards.
BodiesDetachedFirst ==
    /\ [](world = IF bullet.isInitialized
                  THEN {registry[i].body : i \in 1..Len(registry)}
                  ELSE {})
    /\ [](~bullet.isInitialized => registry = <<>>)
    /\ [][ ( /\ lastCall'.scene = "BulletPhysicsScene"
             /\ Called(lastCall', {"cleanup", "destructor"})
             /\ bullet.isInitialized )
           => LET removals == Positions(effects', {"removeRigidBody"})
                  clears == Positions(effects', {"registry.clear"})
                  deletes == Positions(effects', {"delete dynamicsWorld"})
              IN  /\ {effects'[k].entity : k \in removals} = world
                  /\ Cardinality(removals) = Cardinality(world)
                  /\ Cardinality(clears) = 1
                  /\ Cardinality(deletes) = 1
                  /\ \A k \in removals, c \in clears, d \in deletes : k < c /\ c < d
                  /\ registry' = <<>>
                  /\ world' = {} ]_vars

\* cleanup() or the destructor detached the ground's and the character's
\* bodies of a scene that was Initialized
BodiesDetachedFirstWitness ==
    /\ lastCall.scene = "BulletPhysicsScene"
    /\ lastCall.method \in {"cleanup", "destructor"}
    /\ Cardinality(Positions(effects, {"removeRigidBody"})) = 2
    /\ registry = <<>>
    /\ world = {}

\* The entities of a registry with the given property
Entities(reg, Has(_)) == {i \in 1..Len(reg) : Has(reg[i])}

\* C19: after BulletPhysicsScene::initialize() on an Uninitialized scene the
\* scene is Initialized and the registry holds one static ground-tagged
\* entity, the grid of dynamic falling boxes that createFallingBoxes() builds,
\* and one Name-tagged character exactly if the character file exists and
\* its model is valid.
PhysicsScenePopulated ==
    [][ ( /\ lastCall'.scene = "BulletPhysicsScene"
          /\ Called(lastCall', {"initialize"})
          /\ ~bullet.isInitialized )
        => LET grid == createFallingBoxes(<<>>, {}, TRUE).boxes
           IN  /\ bullet'.isInitialized
               /\ Cardinality(Entities(registry', LAMBDA e : e.ground)) = 1
               /\ \A i \in Entities(registry', LAMBDA e : e.ground) :
                     registry'[i].isStatic
               /\ Len(grid) > 0
               /\ Cardinality(Entities(registry', LAMBDA e : e.mass > 0)) = Len(grid)
               /\ Cardinality(Entities(registry', LAMBDA e : e.name))
                     = IF lastCall'.in[2] /\ lastCall'.in[3] THEN 1 ELSE 0 ]_vars

\* The model draw calls made for entity i in a sequence of effects
ModelDraws(fx, i) ==
    SelectSeq(fx, LAMBDA e : e.entity = i /\ e.call \in {"DrawModel", "DrawModelEx"})

\* C20: after one BulletPhysicsScene::draw(), every renderable entity with a
\* valid model and a scale with a component <= 0 has been drawn by exactly one
\* model draw call, the unit-scale fallback; ground-tagged and Name-tagged
\* entities included.
ScaleFallbackOnce ==
    lastCall = SceneCall("BulletPhysicsScene", "draw", <<>>)
    => \A i \in 1..Len(registry) :
          ( registry[i].renderable /\ registry[i].hasModel
            /\ ~ScaleValid(registry[i].scale) )
          => /\ Len(ModelDraws(effects, i)) = 1
             /\ ModelDraws(effects, i)[1].scale = UnitScale

\* The positions of the effects of a sequence issued by the given callers
IssuedBy(fx, callers) == {k \in 1..Len(fx) : fx[k].by \in callers}

\* C21: in one draw of an Initialized physics scene every draw of the ground
\* query precedes every draw of the second query, and each renderable entity
\* with a valid model is drawn by exactly one of the two queries.
RenderQueriesDisjoint ==
    ( lastCall = SceneCall("BulletPhysicsScene", "draw", <<>>) /\ bullet.isInitialized )
    => /\ \A g \in IssuedBy(effects, {"RenderSystem::drawGround"}),
             d \in IssuedBy(effects, {"RenderSystem::draw"}) : g < d
       /\ \A i \in 1..Len(registry) :
             ( registry[i].renderable /\ registry[i].hasModel )
             => Cardinality({k \in IssuedBy(effects, {"RenderSystem::drawGround",
                                                      "RenderSystem::draw"}) :
                                effects[k].entity = i}) = 1

\* The step is a call of the named factory or method of the physics scene
PhysicsSceneCall(c, method) == c.scene = "BulletPhysicsScene" /\ c.method = method

\* C22: no entity whose Renderable has hasModel = false (and no entity
\* without a Renderable) is passed to a model draw call by RenderSystem::draw,
\* RenderSystem::drawGround or BulletPhysicsScene::draw; createPhysicsEntity
\* sets hasModel only if IsModelValid(model) answered true, and no later call
\* changes it.
InvalidModelNeverDrawn ==
    /\ [](\A i \in 1..Len(registry) :
             ~registry[i].hasModel => ModelDraws(effects, i) = <<>>)
    /\ [][ /\ \A i \in 1..Len(registry) :
                 i <= Len(registry') /\ registry'[i].hasModel = registry[i].hasModel
           /\ PhysicsSceneCall(lastCall', "createPhysicsEntity")
              => ( registry'[Len(registry')].hasModel => lastCall'.in[4] ) ]_vars

\* BulletPhysicsScene::draw() ran over a registry with a Name-tagged entity
\* whose model is invalid and drew the warning sphere, and no model, for it
InvalidModelNeverDrawnWitness ==
    /\ PhysicsSceneCall(lastCall, "draw")
    /\ \E i \in 1..Len(registry) :
          /\ registry[i].renderable /\ ~registry[i].hasModel /\ registry[i].name
          /\ \E k \in 1..Len(effects) :
                effects[k].entity = i /\ effects[k].call = "DrawSphere"

\* C25: the entity that createPhysicsEntity adds has a Transform with the
\* given position, identity rotation and unit scale, a PhysicsBody with the
\* given mass and isStatic = (mass = 0) whose rigid body is in the world when
\* the call returns, a Renderable exactly if a model was supplied and the
\* Ground tag exactly if the ground flag was set; while the scene is
\* Initialized every PhysicsBody of the registry refers to a body in the world.
EntityFullyWired ==
    /\ [](bullet.isInitialized
          => \A i \in 1..Len(registry) :
                registry[i].body # NoEntity /\ registry[i].body \in world)
    /\ [][ PhysicsSceneCall(lastCall', "createPhysicsEntity")
           => LET e == Len(registry) + 1
                  in == lastCall'.in
              IN  /\ Len(registry') = e
                  /\ registry'[e].position = in[1]
                  /\ registry'[e].rotation = Quaternion(0, 0, 0, 1)
                  /\ registry'[e].scale = <<1, 1, 1>>
                  /\ registry'[e].mass = in[2]
                  /\ registry'[e].isStatic = (in[2] = 0)
                  /\ registry'[e].body # NoEntity
                  /\ registry'[e].body \notin world
                  /\ registry'[e].body \in world'
                  /\ registry'[e].renderable = in[3]
                  /\ registry'[e].ground = in[5]
                  /\ ~registry'[e].name ]_vars

\* createPhysicsEntity made a dynamic ground-tagged entity with a model, as
\* the second entity of the registry
EntityFullyWiredWitness ==
    /\ PhysicsSceneCall(lastCall, "createPhysicsEntity")
    /\ lastCall.in[2] > 0 /\ lastCall.in[3] /\ lastCall.in[5]
    /\ Len(registry) = 2
    /\ registry[2].renderable /\ registry[2].ground /\ ~registry[2].isStatic
    /\ registry[2].body \in world

\* C27: createFallingBoxes() adds exactly kBoxCount entities, each dynamic,
\* each with a rigid body of its own attached to the world.
FallingBoxesCount ==
    [][ PhysicsSceneCall(lastCall', "createFallingBoxes")
        => LET new == (Len(registry) + 1)..Len(registry')
           IN  /\ Cardinality(new) = kBoxCount
               /\ \A i \in new : registry'[i].mass > 0 /\ ~registry'[i].isStatic
               /\ \A i \in new : registry'[i].body \in world' \ world
               /\ \A i, j \in new : registry'[i].body = registry'[j].body => i = j ]_vars

\* C28: every GeometricScene::initialize() that runs, the first or one after
\* a cleanup(), leaves exactly 9 objects and time 0; every
\* BulletPhysicsScene::initialize() that runs leaves the registry, the world
\* and the scene as the first initialize() of a fresh scene with the same
\* model answers does; after cleanup() (and before the first initialize())
\* the object list and the registry are empty, the world holds no body and
\* the five world pointers are null.
ReentryDoesNotAccumulate ==
    /\ [](geo.objects = IF geo.isInitialized THEN 9 ELSE 0)
    /\ [](~bullet.isInitialized
          => /\ registry = <<>>
             /\ world = {}
             /\ \A k \in 1..Len(WorldPointers) : ~bullet[WorldPointers[k]])
    /\ [][ ( lastCall'.scene = "GeometricScene" /\ lastCall'.method = "initialize"
             /\ ~geo.isInitialized )
           => ( geo'.isInitialized /\ geo'.objects = 9 /\ geo'.time = 0 ) ]_vars
    /\ [][ ( PhysicsSceneCall(lastCall', "initialize") /\ ~bullet.isInitialized )
           => LET first == BulletPhysicsScene_initialize(BulletNew, <<>>, {},
                              lastCall'.in[1], lastCall'.in[2], lastCall'.in[3])
              IN  /\ bullet' = first.state
                  /\ registry' = first.registry
                  /\ world' = first.world
                  /\ Len(registry') = Cardinality(world') ]_vars

\* Both scenes are Initialized for the second time at least, the physics
\* scene just now, with its ground and its character
ReentryDoesNotAccumulateWitness ==
    /\ entered["BulletPhysicsScene"] >= 2
    /\ entered["GeometricScene"] >= 2
    /\ PhysicsSceneCall(lastCall, "initialize")
    /\ effects # <<>>
    /\ bullet.isInitialized /\ geo.isInitialized
    /\ Len(registry) = 2

\* The update call of PhysicsSystem that led to the current state
PhysicsCall(c) == c.scene = "PhysicsSystem" /\ c.method = "update"

\* The indices of the stepSimulation calls in a trace
Steps(trace) == {k \in 1..Len(trace) : trace[k].call = "stepSimulation"}

\* C23: after PhysicsSystem::update on a world, every entity with a rigid body
\* has its Transform rotation equal, component by component in the order
\* x, y, z, w, to the rotation of the body's world transform, and its position
\* equal to that transform's origin; the transform is the motion state's when
\* the body has one and the body's own otherwise.
QuaternionOrderKept ==
    (PhysicsCall(lastCall) /\ phys.worldSet)
    => \A i \in 1..Len(phys.ents) :
          phys.ents[i].hasBody
          => LET e == phys.ents[i]
                 src == IF e.hasMotionState THEN e.motionState
                        ELSE e.bodyTransform
             IN /\ e.rotation.x = src.rotation.x
                /\ e.rotation.y = src.rotation.y
                /\ e.rotation.z = src.rotation.z
                /\ e.rotation.w = src.rotation.w
                /\ e.position[1] = src.origin[1]
                /\ e.position[2] = src.origin[2]
                /\ e.position[3] = src.origin[3]

QuaternionOrderKeptWitness ==
    /\ PhysicsCall(lastCall) /\ phys.worldSet
    /\ \E i, j \in 1..Len(phys.ents) :
          /\ phys.ents[i].hasBody /\ phys.ents[i].hasMotionState
          /\ phys.ents[i].rotation = Quaternion(1, 2, 3, 4)
          /\ phys.ents[i].position = <<11, 12, 13>>
          /\ phys.ents[j].hasBody /\ ~phys.ents[j].hasMotionState
          /\ phys.ents[j].rotation = Quaternion(1, 2, 3, 4)
          /\ phys.ents[j].motionState.rotation = btQuaternion(5, 6, 7, 8)

\* C24: PhysicsSystem::update on a world calls stepSimulation exactly once,
\* with the elapsed time it was given, at most 10 sub-steps and a fixed
\* sub-step of 1/60 s, and that call comes before every other call of the
\* update, so before any Transform is overwritten; the Transforms it writes are
\* those of the stepped world.  On a null world it steps nothing and leaves
\* every Transform as it was.
StepsOnceBeforeSync ==
    [][ PhysicsCall(lastCall')
        => IF phys.worldSet
           THEN /\ Steps(phys'.trace) = {1}
                /\ phys'.trace[1].args = <<lastCall'.in[1], 10, <<1, 60>>>>
                /\ \A i \in 1..Len(phys.ents) :
                      phys.ents[i].hasBody
                      => /\ phys'.ents[i].position
                              = WorldTransformOf(phys'.ents[i]).origin
                         /\ \E k \in 2..Len(phys'.trace) :
                               /\ phys'.trace[k].entity = i
                               /\ phys'.trace[k].call = "transform.position ="
           ELSE /\ phys'.trace = <<>>
                /\ phys'.ents = phys.ents ]_vars

StepsOnceBeforeSyncWitness ==
    /\ PhysicsCall(lastCall) /\ phys.worldSet
    /\ Len(phys.trace) >= 4
    /\ phys.trace[1].call = "stepSimulation"
    /\ \E i \in 1..Len(phys.ents) : phys.ents[i].position # ZeroVector

\* The positions of the named backend call in the effects of a step
Backend(fx, name) == {k \in 1..Len(fx) : fx[k].call = name}

\* A call of the ImGuiManager that led to the current state
ImGuiCalled(c, methods) == c.scene = "ImGuiManager" /\ c.method \in methods

\* C30: under any sequence of ImGuiManager calls the backend is initialized
\* only when it was never initialized or last shut down, and shut down only
\* when it was last initialized, at most once per call, so the two strictly
\* alternate beginning with an init; initialize on an initialized manager and
\* shutdown (or the destructor) on an uninitialized one make no call at all;
\* beginFrame and endFrame make no ImGui call while uninitialized; and
\* wantsCaptureMouse / wantsCaptureKeyboard return false while uninitialized.
BackendAlternates ==
    /\ [](imgui.initialized <=> imgui.backend = "init")
    /\ [](imgui.inits - imgui.shutdowns = IF imgui.initialized THEN 1 ELSE 0)
    /\ [][ /\ Cardinality(Backend(effects', "ImGui_ImplOpenGL3_Init")) <= 1
           /\ Cardinality(Backend(effects', "ImGui_ImplOpenGL3_Shutdown")) <= 1
           /\ Backend(effects', "ImGui_ImplOpenGL3_Init") # {}
              => /\ imgui.backend \in {"none", "shutdown"}
                 /\ imgui'.backend = "init"
                 /\ ImGuiCalled(lastCall', {"initialize"})
           /\ Backend(effects', "ImGui_ImplOpenGL3_Shutdown") # {}
              => /\ imgui.backend = "init"
                 /\ imgui'.backend = "shutdown"
                 /\ ImGuiCalled(lastCall', {"shutdown", "~ImGuiManager"})
           /\ ( ImGuiCalled(lastCall', {"initialize"}) /\ imgui.initialized )
              => ( effects' = <<>> /\ imgui' = imgui )
           /\ ( ImGuiCalled(lastCall', {"shutdown"}) /\ ~imgui.initialized )
              => ( effects' = <<>> /\ imgui' = imgui )
           /\ ( ImGuiCalled(lastCall', {"beginFrame", "endFrame"})
                /\ ~imgui.initialized )
              => ( effects' = <<>> /\ imgui' = imgui )
           /\ ( ImGuiCalled(lastCall', {"wantsCaptureMouse", "wantsCaptureKeyboard"})
                /\ ~imgui.initialized )
              => ~imgui'.returned ]_vars

BackendAlternatesWitness ==
    /\ imgui.inits = 2 /\ imgui.shutdowns = 2
    /\ imgui.wantMouse
    /\ imgui.destroyed
    /\ effects # <<>>

\* The positions of the named manager calls among the calls of an iteration
FrameCalls(f, ops) == {k \in 1..Len(f) : f[k].op \in ops}

\* One update, then at once one draw of the same scene
OneUpdateThenDraw(f) ==
    /\ Cardinality(FrameCalls(f, {"update"})) = 1
    /\ Cardinality(FrameCalls(f, {"draw"})) = 1
    /\ \A u \in FrameCalls(f, {"update"}) : \A d \in FrameCalls(f, {"draw"}) :
          u < d

\* C26: in both game loops an iteration calls sceneManager.update() exactly
\* once and then sceneManager.draw() exactly once; no switchToNextScene or
\* switchToPreviousScene (TAB key, Previous / Next button) is called between
\* the two, and both address the same current scene.
UpdateThenDrawSameScene ==
    /\ [](loop.pc \in {"top", "input", "beginFrame", "wants", "f4", "click",
                       "cursor", "camera", "update", "draw", "panelPrev",
                       "panelNext", "endFrame", "exit", "done"}
          => LET f == loop.frame
             IN  /\ Cardinality(FrameCalls(f, {"update"})) <= 1
                 /\ Cardinality(FrameCalls(f, {"draw"})) <= 1
                 /\ \A d \in FrameCalls(f, {"draw"}) :
                       \E u \in FrameCalls(f, {"update"}) :
                          /\ u < d
                          /\ FrameCalls(f, Switches) \cap (u..d) = {}
                          /\ f[u].scene = f[d].scene)
    /\ [][ ( loop.pc \in {"draw", "endFrame"} /\ loop'.pc = "top" )
           => OneUpdateThenDraw(loop'.frame) ]_vars

UpdateThenDrawSameSceneWitness ==
    /\ loop.variant = "tab" /\ loop.pc = "top"
    /\ Len(loop.frame) = 3
    /\ loop.frame[1].op = "switchToNextScene"
    /\ loop.frame[2] = [op |-> "update", scene |-> 2]
    /\ loop.frame[3] = [op |-> "draw", scene |-> 2]

\* C29: in the ImGui loop, from the cursor step to the end of the iteration
\* cursorEnabled = (~cameraTrackingEnabled \/ imguiWantsMouse); the cursor
\* step calls EnableCursor / DisableCursor exactly when cursorEnabled changes,
\* every such call differs from the cursor call before it and the first one is
\* the DisableCursor made before the loop; and the camera is updated in an
\* iteration only if tracking is on and ImGui wants neither mouse nor keyboard.
CursorFollowsTracking ==
    /\ []( ( loop.variant = "imgui"
             /\ loop.pc \in {"camera", "update", "draw", "panelPrev",
                             "panelNext", "endFrame"} )
           => loop.cursorEnabled
                 = (~loop.cameraTrackingEnabled \/ loop.imguiWantsMouse) )
    /\ []( ( loop.variant = "imgui" /\ loop.cameraUpdated )
           => ( loop.cameraTrackingEnabled /\ ~loop.imguiWantsMouse
                /\ ~loop.imguiWantsKeyboard ) )
    /\ [][ loop.variant = "imgui"
           => /\ loop'.call # "none"
                 => /\ loop'.call # loop.lastCursor
                    /\ loop.lastCursor = "none" => loop'.call = "DisableCursor"
                    /\ loop'.lastCursor = loop'.call
              /\ loop'.call = "none" => loop'.lastCursor = loop.lastCursor
              /\ loop.pc = "cursor"
                 => ( loop'.call # "none"
                      <=> loop'.cursorEnabled # loop.cursorEnabled ) ]_vars

CursorFollowsTrackingWitness ==
    /\ loop.variant = "imgui" /\ loop.pc = "camera"
    /\ loop.call = "DisableCursor"
    /\ loop.cameraTrackingEnabled /\ ~loop.cursorEnabled
    /\ ~loop.imguiWantsMouse /\ loop.imguiWantsKeyboard

====
